---------------------------- MODULE Spec2Model ----------------------------
(***************************************************************************)
(* A model of the provider core of multi_model_ai: the provider factory    *)
(* (instance cache, per-name locks, retry wrapper) and the four provider   *)
(* variants (message translation, completion, streaming, error handling).  *)
(*                                                                         *)
(* The module holds several specifications, each over its own group of     *)
(* variables; the variables of the other groups stay at their idle value.  *)
(*   Spec         ProviderFactory.get_provider under concurrent callers    *)
(*   SpecLive     the same, under the scheduling of asyncio                *)
(*   SpecRetry    ProviderFactory.run_with_rate_limit_handling             *)
(*   SpecBackoff  the pre-jitter backoff delay as a pure function          *)
(*   SpecVariant  the variants' generate_completion (request + result)     *)
(*   SpecStream   the variants' generate_completion_stream                 *)
(*   SpecModels   ProviderFactory.list_all_models and get_models           *)
(*   SpecRoute    ProviderFactory.get_provider_for_model                   *)
(*   SpecParams   the vendor request built from the call parameters        *)
(*   SpecClassify rate-limit classification of a failure                   *)
(*   SpecDispatch ProviderFactory.generate_completion                      *)
(*   SpecCache    cache keys and the credential of a vendor call           *)
(***************************************************************************)
EXTENDS Integers, Sequences, FiniteSets, TLC

VARIABLES
    \* ---- ProviderFactory (factory.py:16-19) and its callers
    providers,      \* self._providers: name -> (provider_key -> instance id)
    locks,          \* self._locks: name -> holder task (0 = lock free)
    instances,      \* every provider object constructed so far, by id
    tpc,            \* position of each caller task inside get_provider
    targs,          \* arguments of the call each task is executing
    calls,          \* number of get_provider calls started
    returned,       \* history: (arguments, instance id) of the calls that returned
    raised,         \* history: (arguments, error) of the calls that raised
    \* ---- one generate_completion call of a variant
    vpc,            \* "off", "start", "sent" (vendor call awaited), "done"
    vvariant,       \* the variant called
    vkw,            \* the keyword arguments of the call
    voutcome,       \* what the vendor call will do: answer or raise
    vrequest,       \* the request handed to the vendor client
    vresult,        \* what generate_completion returned or raised
    \* ---- one run_with_rate_limit_handling call
    rpc,            \* "off", "await" (line 301), "except" (line 302), "done"
    rop,            \* the operation whose coroutine was passed in
    rmax,           \* max_retries
    rbase,          \* base_delay
    rcap,           \* max_delay
    retries,        \* retries
    last_exception, \* last_exception
    rexc,           \* e, the exception the except clause is handling
    coroAwaited,    \* whether the coroutine object has been awaited
    attempts,       \* number of executions of the operation's body
    sleeps,         \* number of asyncio.sleep calls
    rdelay,         \* the delay of line 323 computed last
    routcome,       \* what the wrapper returned or raised
    \* ---- the backoff delays of a retry policy
    bpc,            \* "off", "run"
    bbase,          \* base_delay
    bcap,           \* max_delay
    bmax,           \* max_retries
    bdelays,        \* the pre-jitter delays of attempts 0, 1, ...
    \* ---- one generate_completion_stream call of a variant
    spc,            \* "off", "start", "open", "drained" (Google), "done",
                    \* "closed" (the consumer closed the generator)
    svariant,       \* the variant called
    skw,            \* the keyword arguments of the call
    sevents,        \* the items the vendor stream delivers
    sfail,          \* the failure of the vendor, if it fails, and where
    sasync,         \* whether "async for" accepts asyncio.as_completed(...)
    srequest,       \* the request handed to the vendor client
    sread,          \* number of vendor items read
    sproc,          \* number of vendor items turned into chunks
    schunks,        \* the items yielded to the consumer
    svendor,        \* the vendor's network stream: "unopened", "open",
                    \* "ended" (exhausted or failed), "closed" (by this code)
    \* ---- one list_all_models call
    mpc,            \* "off", "gather" (tasks under asyncio.gather), "done"
    mkeys,          \* api_keys.items(): the provider names, in dict order
    mtask,          \* per task: position, provider obtained, value returned
    mreturn,        \* what list_all_models returned
    \* ---- one get_provider_for_model call
    gpc,            \* "off", "call", "done"
    gid,            \* model_id
    gresult,        \* the name returned, or the exception raised
    \* ---- the vendor request a variant builds for one call
    ppc,            \* "off", "call", "built"
    pvariant,       \* the variant called
    pkw,            \* the keyword arguments of the call
    pstream,        \* generate_completion_stream (TRUE) or generate_completion
    prequest,       \* the request handed to the vendor client
    \* ---- the classification of one failure
    cpc,            \* "off", "raised", "classified"
    cvariant,       \* the variant whose vendor call raised
    cexc,           \* the exception
    cerror,         \* the dict of the variant's handle_provider_error
    cwrapper,       \* is_rate_limit of run_with_rate_limit_handling
    \* ---- one ProviderFactory.generate_completion call
    dpc,            \* "off", "call", "returned" (generator handed over),
                    \* "pulled" (consumer's first pull), "done"
    dfkw,           \* the keyword arguments of the factory call
    dreceived,      \* the keyword arguments the variant's method received
    dvariantcalls,  \* number of calls of the variant's generate_completion
    dvendorcalls,   \* number of vendor network calls issued
    dvret,          \* what the variant's generate_completion returned
    dresult,        \* what the factory returned or raised
    \* ---- cached instances and the credential their vendor calls carry
    qproviders,     \* self._providers: name -> key -> instance
    qgenai,         \* the api_key google.generativeai is configured with
    qret,           \* the last get_provider call: arguments and instance
    qcall           \* the last vendor call: instance and credential sent

factoryVars == <<providers, locks, instances, tpc, targs, calls, returned, raised>>
variantVars == <<vpc, vvariant, vkw, voutcome, vrequest, vresult>>
retryVars == <<rpc, rop, rmax, rbase, rcap, retries, last_exception, rexc,
               coroAwaited, attempts, sleeps, rdelay, routcome>>
backoffVars == <<bpc, bbase, bcap, bmax, bdelays>>
streamVars == <<spc, svariant, skw, sevents, sfail, sasync, srequest, sread, sproc,
                schunks, svendor>>

modelsVars == <<mpc, mkeys, mtask, mreturn>>

routeVars == <<gpc, gid, gresult>>

paramsVars == <<ppc, pvariant, pkw, pstream, prequest>>

classifyVars == <<cpc, cvariant, cexc, cerror, cwrapper>>

dispatchVars == <<dpc, dfkw, dreceived, dvariantcalls, dvendorcalls, dvret, dresult>>

cacheVars == <<qproviders, qgenai, qret, qcall>>

vars == <<factoryVars, variantVars, retryVars, backoffVars, streamVars, modelsVars,
          routeVars, paramsVars, classifyVars, dispatchVars, cacheVars>>

\* the variables a group's actions leave alone
factoryOthers == <<variantVars, retryVars, backoffVars, streamVars, modelsVars, routeVars, paramsVars, classifyVars, dispatchVars, cacheVars>>
variantOthers == <<factoryVars, retryVars, backoffVars, streamVars, modelsVars, routeVars, paramsVars, classifyVars, dispatchVars, cacheVars>>
retryOthers == <<factoryVars, variantVars, backoffVars, streamVars, modelsVars, routeVars, paramsVars, classifyVars, dispatchVars, cacheVars>>
backoffOthers == <<factoryVars, variantVars, retryVars, streamVars, modelsVars, routeVars, paramsVars, classifyVars, dispatchVars, cacheVars>>
streamOthers == <<factoryVars, variantVars, retryVars, backoffVars, modelsVars, routeVars, paramsVars, classifyVars, dispatchVars, cacheVars>>
\* list_all_models works on the factory's cache: it leaves alone the callers
\* of get_provider and the other calls
modelsOthers == <<tpc, targs, calls, returned, raised, variantVars, retryVars,
                  backoffVars, streamVars, routeVars, paramsVars, classifyVars, dispatchVars, cacheVars>>
routeOthers == <<factoryVars, variantVars, retryVars, backoffVars, streamVars,
                 modelsVars, paramsVars, classifyVars, dispatchVars, cacheVars>>
paramsOthers == <<factoryVars, variantVars, retryVars, backoffVars, streamVars,
                  modelsVars, routeVars, classifyVars, dispatchVars, cacheVars>>
classifyOthers == <<factoryVars, variantVars, retryVars, backoffVars, streamVars,
                    modelsVars, routeVars, paramsVars, dispatchVars, cacheVars>>
\* generate_completion works on the factory's cache
dispatchOthers == <<tpc, targs, calls, returned, raised, variantVars, retryVars,
                    backoffVars, streamVars, modelsVars, routeVars, paramsVars,
                    classifyVars, cacheVars>>
cacheOthers == <<factoryVars, variantVars, retryVars, backoffVars, streamVars, modelsVars, routeVars, paramsVars, classifyVars, dispatchVars>>

-----------------------------------------------------------------------------
(* Bounds of the model *)

NumTasks == 2
MaxCalls == 3

-----------------------------------------------------------------------------
(* Python values *)

None == "<None>"

EmptyDict == [k \in {} |-> 0]

\* d[k] = v, as a new dict
DictPut(d, k, v) == [x \in (DOMAIN d) \cup {k} |-> IF x = k THEN v ELSE d[x]]

-----------------------------------------------------------------------------
(* providers/__init__.py *)

\* the names callers pass to the factory
ProviderNames == {"openai", "OpenAI", "unknownvendor"}
ApiKeys == {"k1", "k2"}
OrgIds == {None, "o1"}

\* str.lower() on the provider names of the model
LowerName(name) == IF name = "OpenAI" THEN "openai" ELSE name

PROVIDER_REGISTRY ==
    [n \in {"openai", "anthropic", "google", "cohere"} |->
        CASE n = "openai"    -> "OpenAIProvider"
          [] n = "anthropic" -> "AnthropicProvider"
          [] n = "google"    -> "GoogleProvider"
          [] n = "cohere"    -> "CohereProvider"]

\* PROVIDER_REGISTRY.get(provider_name.lower())
RegistryGet(name) ==
    IF LowerName(name) \in DOMAIN PROVIDER_REGISTRY
    THEN PROVIDER_REGISTRY[LowerName(name)]
    ELSE None

-----------------------------------------------------------------------------
(* ProviderFactory.get_provider *)

Tasks == 1..NumTasks

CallArgs == [provider_name : ProviderNames, api_key : ApiKeys,
             organization_id : OrgIds]

NoArgs == [provider_name |-> None, api_key |-> None, organization_id |-> None]

\* f"{provider_name}:{api_key}:{organization_id or ''}"
ProviderKey(provider_name, api_key, organization_id) ==
    provider_name \o ":" \o api_key \o ":" \o
        (IF organization_id = None THEN "" ELSE organization_id)

KeyOf(a) == ProviderKey(a.provider_name, a.api_key, a.organization_id)

NeedsConstruction_Always(provs, name, key) == TRUE

\* if provider_key not in self._providers[provider_name]
NeedsConstruction(provs, name, key) == key \notin DOMAIN provs[name]

\* if provider_name not in self._providers: self._providers[provider_name] = {}
NameDict(provs, name) ==
    IF name \notin DOMAIN provs THEN DictPut(provs, name, EmptyDict) ELSE provs

FactoryInit ==
    /\ providers = EmptyDict
    /\ locks = EmptyDict
    /\ instances = << >>
    /\ tpc = [t \in Tasks |-> "idle"]
    /\ targs = [t \in Tasks |-> NoArgs]
    /\ calls = 0
    /\ returned = {}
    /\ raised = {}

\* lines 40-44: the key is computed and the name's lock created; the task
\* then stands at "async with self._locks[provider_name]"
Call(t, a) ==
    /\ tpc[t] = "idle"
    /\ calls < MaxCalls
    /\ calls' = calls + 1
    /\ targs' = [targs EXCEPT ![t] = a]
    /\ locks' = IF a.provider_name \notin DOMAIN locks
                THEN DictPut(locks, a.provider_name, 0)
                ELSE locks
    /\ tpc' = [tpc EXCEPT ![t] = "acquire"]
    /\ UNCHANGED <<providers, instances, returned, raised>>
    /\ UNCHANGED factoryOthers

\* line 47: asyncio.Lock.acquire, which waits while another task holds it
Acquire(t) ==
    /\ tpc[t] = "acquire"
    /\ locks[targs[t].provider_name] = 0
    /\ locks' = [locks EXCEPT ![targs[t].provider_name] = t]
    /\ tpc' = [tpc EXCEPT ![t] = "locked"]
    /\ UNCHANGED <<providers, instances, targs, calls, returned, raised>>
    /\ UNCHANGED factoryOthers

LockOnExit_LeakOnRaise(lks, name, raises) ==
    IF raises THEN lks ELSE [lks EXCEPT ![name] = 0]

\* line 47, "async with self._locks[provider_name]": the lock is released
\* when the block is left, by the return as by an exception
LockOnExit(lks, name, raises) == [lks EXCEPT ![name] = 0]

\* lines 48-66: the body of the "async with" block, the release of the lock
\* when the block is left (normally, or by the exception of the constructor
\* call) and the return of line 66; no await separates them.
\* ok: whether the vendor client constructor (BaseProvider.__init__ ->
\* _setup_client) completes.
LockedBody(t, ok) ==
    /\ tpc[t] = "locked"
    /\ LET a     == targs[t]
           name  == a.provider_name
           key   == KeyOf(a)
           provs == NameDict(providers, name)
           cls   == RegistryGet(name)
           id    == Len(instances) + 1
           raises == NeedsConstruction(provs, name, key) /\ (cls = None \/ ~ok)
       IN  /\ locks' = LockOnExit(locks, name, raises)
           /\ IF ~NeedsConstruction(provs, name, key)
              THEN /\ providers' = provs
                   /\ returned' = returned \cup {[args |-> a, id |-> provs[name][key]]}
                   /\ UNCHANGED <<instances, raised>>
              ELSE IF cls = None
              THEN \* providers/__init__.py:50-52
                   /\ providers' = provs
                   /\ raised' = raised \cup {[args |-> a, error |-> "ValueError"]}
                   /\ UNCHANGED <<instances, returned>>
              ELSE IF ok
              THEN /\ instances' = Append(instances,
                          [name |-> name, key |-> key, cls |-> cls,
                           api_key |-> a.api_key,
                           organization_id |-> a.organization_id])
                   /\ providers' = DictPut(provs, name, DictPut(provs[name], key, id))
                   /\ returned' = returned \cup {[args |-> a, id |-> id]}
                   /\ UNCHANGED raised
              ELSE /\ providers' = provs
                   /\ raised' = raised \cup {[args |-> a, error |-> "ClientError"]}
                   /\ UNCHANGED <<instances, returned>>
    /\ tpc' = [tpc EXCEPT ![t] = "idle"]
    /\ targs' = [targs EXCEPT ![t] = NoArgs]
    /\ UNCHANGED calls
    /\ UNCHANGED factoryOthers

FactoryNext ==
    \E t \in Tasks :
        \/ \E a \in CallArgs : Call(t, a)
        \/ Acquire(t)
        \/ \E ok \in BOOLEAN : LockedBody(t, ok)

-----------------------------------------------------------------------------
(* Claims about ProviderFactory.get_provider *)

\* the instances constructed for the argument triple a
Made(a) ==
    {i \in 1..Len(instances) :
        /\ instances[i].name = a.provider_name
        /\ instances[i].api_key = a.api_key
        /\ instances[i].organization_id = a.organization_id}

\* C1: under any interleaving of get_provider calls, at most one instance is
\* ever constructed for an argument triple (provider_name, api_key,
\* organization_id); as soon as a call for the triple has returned, exactly
\* one has been constructed and every call for the triple returned it; and
\* every instance ever constructed is still cached under its key (no entry
\* is replaced or removed).
C1_OneInstancePerKey ==
    /\ \A a \in CallArgs :
          /\ Cardinality(Made(a)) <= 1
          /\ \A r \in returned :
                r.args = a => Made(a) = {r.id}
    /\ \A i \in 1..Len(instances) :
          /\ instances[i].name \in DOMAIN providers
          /\ instances[i].key \in DOMAIN providers[instances[i].name]
          /\ providers[instances[i].name][instances[i].key] = i

\* C1 witness: every call of the run used the same argument triple, none is
\* still running, none raised, and all of them returned the one instance.
C1_Witness ==
    /\ calls = MaxCalls
    /\ \A t \in Tasks : tpc[t] = "idle"
    /\ raised = {}
    /\ Cardinality(returned) = 1
    /\ Len(instances) = 1

\* C2: a get_provider call with a name that is not in PROVIDER_REGISTRY raises
\* ValueError and leaves self._providers as it was: the name never gets an
\* entry in it, not even an empty one.
C2_UnsupportedLeavesNoEntry ==
    /\ \A r \in raised :
          RegistryGet(r.args.provider_name) = None => r.error = "ValueError"
    /\ \A n \in ProviderNames :
          RegistryGet(n) = None => n \notin DOMAIN providers

-----------------------------------------------------------------------------
(* Python str values whose characters the code inspects (exception type     *)
(* names and messages) are sequences of one-character strings.              *)

UpperCase == <<"A", "B", "C", "D", "E", "F", "G", "H", "I", "J", "K", "L", "M", "N", "O", "P", "Q", "R", "S", "T", "U", "V", "W", "X", "Y", "Z">>
LowerCase == <<"a", "b", "c", "d", "e", "f", "g", "h", "i", "j", "k", "l", "m", "n", "o", "p", "q", "r", "s", "t", "u", "v", "w", "x", "y", "z">>

LowerChar(c) ==
    IF \E i \in 1..Len(UpperCase) : UpperCase[i] = c
    THEN LowerCase[CHOOSE i \in 1..Len(UpperCase) : UpperCase[i] = c]
    ELSE c

\* str.lower()
StrLower(s) == [i \in 1..Len(s) |-> LowerChar(s[i])]

\* t in s
StrIn(t, s) == \E i \in 0..(Len(s) - Len(t)) : SubSeq(s, i + 1, i + Len(t)) = t

-----------------------------------------------------------------------------
(* Exceptions: type(e).__name__ and str(e) *)

Exc(type, msg) == [type |-> type, msg |-> msg]

T_RateLimitError == <<"R", "a", "t", "e", "L", "i", "m", "i", "t", "E", "r", "r", "o", "r">>
T_APIConnectionError == <<"A", "P", "I", "C", "o", "n", "n", "e", "c", "t", "i", "o", "n", "E", "r", "r", "o", "r">>
T_APIError == <<"A", "P", "I", "E", "r", "r", "o", "r">>
T_ResourceExhausted == <<"R", "e", "s", "o", "u", "r", "c", "e", "E", "x", "h", "a", "u", "s", "t", "e", "d">>
T_ServiceUnavailable == <<"S", "e", "r", "v", "i", "c", "e", "U", "n", "a", "v", "a", "i", "l", "a", "b", "l", "e">>
T_GoogleAPIError == <<"G", "o", "o", "g", "l", "e", "A", "P", "I", "E", "r", "r", "o", "r">>
T_CohereAPIError == <<"C", "o", "h", "e", "r", "e", "A", "P", "I", "E", "r", "r", "o", "r">>
T_CohereConnectionError == <<"C", "o", "h", "e", "r", "e", "C", "o", "n", "n", "e", "c", "t", "i", "o", "n", "E", "r", "r", "o", "r">>
T_CohereError == <<"C", "o", "h", "e", "r", "e", "E", "r", "r", "o", "r">>
T_TimeoutError == <<"T", "i", "m", "e", "o", "u", "t", "E", "r", "r", "o", "r">>
T_TypeError == <<"T", "y", "p", "e", "E", "r", "r", "o", "r">>
T_RuntimeError == <<"R", "u", "n", "t", "i", "m", "e", "E", "r", "r", "o", "r">>
T_AttributeError == <<"A", "t", "t", "r", "i", "b", "u", "t", "e", "E", "r", "r", "o", "r">>

M_RateLimitReached == <<"R", "a", "t", "e", " ", "l", "i", "m", "i", "t", " ", "r", "e", "a", "c", "h", "e", "d">>
M_ConnectionError == <<"C", "o", "n", "n", "e", "c", "t", "i", "o", "n", " ", "e", "r", "r", "o", "r", ".">>
M_FailedToGenerate == <<"F", "a", "i", "l", "e", "d", " ", "t", "o", " ", "g", "e", "n", "e", "r", "a", "t", "e">>
M_QuotaExhausted == <<"4", "2", "9", " ", "Q", "u", "o", "t", "a", " ", "e", "x", "h", "a", "u", "s", "t", "e", "d">>
M_Unavailable == <<"5", "0", "3", " ", "u", "n", "a", "v", "a", "i", "l", "a", "b", "l", "e">>
M_TooManyRequests == <<"T", "o", "o", " ", "M", "a", "n", "y", " ", "R", "e", "q", "u", "e", "s", "t", "s">>
M_Empty == << >>

\* the exception classes of the vendor SDKs the variants import, with the
\* classes each one derives from
Bases(type) ==
    CASE type = T_RateLimitError -> {T_APIError}
      [] type = T_APIConnectionError -> {T_APIError}
      [] type = T_ResourceExhausted -> {T_GoogleAPIError}
      [] type = T_ServiceUnavailable -> {T_GoogleAPIError}
      [] type = T_CohereAPIError -> {T_CohereError}
      [] type = T_CohereConnectionError -> {T_CohereError}
      [] OTHER -> {}

\* isinstance(e, cls)
IsInstance(e, cls) == e.type = cls \/ cls \in Bases(e.type)

Variants == {"openai", "anthropic", "google", "cohere"}

\* What a variant's vendor client raises in the model: a rate-limit
\* rejection, a transport failure, a generic API error and an exception
\* outside the vendor's taxonomy whose str() is empty (TimeoutError()).
VendorFailures(variant) ==
    CASE variant \in {"openai", "anthropic"} ->
            {Exc(T_RateLimitError, M_RateLimitReached),
             Exc(T_APIConnectionError, M_ConnectionError),
             Exc(T_APIError, M_FailedToGenerate),
             Exc(T_TimeoutError, M_Empty)}
      [] variant = "google" ->
            {Exc(T_ResourceExhausted, M_QuotaExhausted),
             Exc(T_ServiceUnavailable, M_Unavailable),
             Exc(T_GoogleAPIError, M_FailedToGenerate),
             Exc(T_TimeoutError, M_Empty)}
      [] variant = "cohere" ->
            {Exc(T_CohereAPIError, M_TooManyRequests),
             Exc(T_CohereConnectionError, M_ConnectionError),
             Exc(T_CohereError, M_FailedToGenerate),
             Exc(T_TimeoutError, M_Empty)}

\* the vendor's rate-limit rejection
VendorRateLimit(variant) ==
    CASE variant \in {"openai", "anthropic"} -> Exc(T_RateLimitError, M_RateLimitReached)
      [] variant = "google" -> Exc(T_ResourceExhausted, M_QuotaExhausted)
      [] variant = "cohere" -> Exc(T_CohereAPIError, M_TooManyRequests)

Failures == UNION {VendorFailures(v) : v \in Variants}

-----------------------------------------------------------------------------
(* handle_provider_error of the four variants *)

\* the condition under which the variant attaches retry_after
AttachesRetryAfter(variant, e) ==
    CASE variant \in {"openai", "anthropic"} -> IsInstance(e, T_RateLimitError)
      [] variant = "google" -> IsInstance(e, T_ResourceExhausted)
      [] variant = "cohere" ->
            IsInstance(e, T_CohereAPIError) /\ StrIn(<<"r", "a", "t", "e">>, StrLower(e.msg))

\* error_message = str(error)
ErrorMessage(e) == e.msg

HandleProviderError_Unflagged(variant, e) ==
    [k \in {"error_type", "message", "provider"} |->
        CASE k = "error_type" -> e.type
          [] k = "message" -> ErrorMessage(e)
          [] k = "provider" -> variant]

HandleProviderError(variant, e) ==
    LET error_dict == [k \in {"error", "error_type", "message", "provider"} |->
                          CASE k = "error" -> TRUE
                            [] k = "error_type" -> e.type
                            [] k = "message" -> ErrorMessage(e)
                            [] k = "provider" -> variant]
    IN  IF AttachesRetryAfter(variant, e)
        THEN DictPut(error_dict, "retry_after", 60)
        ELSE error_dict

IsErrorResult(r) == "error" \in DOMAIN r

-----------------------------------------------------------------------------
(* Messages and call parameters of generate_completion(_stream).  The       *)
(* keyword arguments of a call are a dict kw; a parameter that is None is   *)
(* absent from it.                                                          *)

Roles == {"system", "user", "assistant"}
Contents == {"a", "b"}

MessageSet == [role : Roles, content : Contents]

BoundedSeq(S, n) == UNION {[1..k -> S] : k \in 0..n}

Max(S) == CHOOSE x \in S : \A y \in S : y <= x

MapSeq(s, Op(_)) == [i \in 1..Len(s) |-> Op(s[i])]

\* a str used as a condition: "if system_message:"
Truthy(s) == s # None /\ s # ""

\* system_message after the loop over messages: the content of the last
\* system-role message, None when there is none
SystemMessage(messages) ==
    LET idx == {i \in 1..Len(messages) : messages[i].role = "system"}
    IN  IF idx = {} THEN None ELSE messages[Max(idx)].content

IsTurn(m) == m.role \in {"user", "assistant"}

\* params.update(additional_params)
DictUpdate(d, u) == [k \in (DOMAIN d) \cup (DOMAIN u) |-> IF k \in DOMAIN u THEN u[k] ELSE d[k]]

CopyParam_Never(params, key, kw, name) == params

\* "if <kw[name]> is not None: params[key] = <kw[name]>"
CopyParam(params, key, kw, name) ==
    IF name \in DOMAIN kw THEN DictPut(params, key, kw[name]) ELSE params

\* "if additional_params: params.update(additional_params)"
MergeAdditional(params, kw) ==
    IF "additional_params" \in DOMAIN kw /\ DOMAIN kw["additional_params"] # {}
    THEN DictUpdate(params, kw["additional_params"])
    ELSE params

WithStream(params, stream) == IF stream THEN DictPut(params, "stream", TRUE) ELSE params

\* ---- OpenAI (openai.py:82-101, 159-179)
OpenAIParams(kw, stream) ==
    LET p0 == [k \in {"model", "messages", "temperature"} |-> kw[k]]
        p1 == WithStream(p0, stream)
        p2 == CopyParam(p1, "max_tokens", kw, "max_tokens")
        p3 == CopyParam(p2, "top_p", kw, "top_p")
        p4 == CopyParam(p3, "stop", kw, "stop_sequences")
        p5 == CopyParam(p4, "presence_penalty", kw, "presence_penalty")
        p6 == CopyParam(p5, "frequency_penalty", kw, "frequency_penalty")
    IN  MergeAdditional(p6, kw)

\* ---- Anthropic (anthropic.py:76-103, 135-155, 214-235)
ConvertMessagesToAnthropicFormat(messages) ==
    [anthropic_messages |->
        MapSeq(SelectSeq(messages, IsTurn),
               LAMBDA m : [role |-> m.role, content |-> m.content]),
     system_message |-> SystemMessage(messages)]

AnthropicParams(kw, stream) ==
    LET conv == ConvertMessagesToAnthropicFormat(kw["messages"])
        p0 == [k \in {"model", "messages", "temperature"} |->
                  IF k = "messages" THEN conv.anthropic_messages ELSE kw[k]]
        p1 == WithStream(p0, stream)
        p2 == IF Truthy(conv.system_message)
              THEN DictPut(p1, "system", conv.system_message)
              ELSE p1
        p3 == CopyParam(p2, "max_tokens", kw, "max_tokens")
        p4 == CopyParam(p3, "top_p", kw, "top_p")
        p5 == CopyParam(p4, "stop_sequences", kw, "stop_sequences")
    IN  MergeAdditional(p5, kw)

\* ---- Google (google.py:53-76, 108-139, 204-236)
ConvertMessagesToGeminiFormat(messages) ==
    [gemini_content |->
        MapSeq(SelectSeq(messages, IsTurn),
               LAMBDA m : [role |-> IF m.role = "user" THEN "user" ELSE "model",
                           parts |-> <<[text |-> m.content]>>]),
     system_message |-> SystemMessage(messages)]

\* f"[SYSTEM: {system_message}]\n\n{first_user_msg}"
SystemPrefixed(system_message, first_user_msg) ==
    "[SYSTEM: " \o system_message \o "]\n\n" \o first_user_msg

\* "if system_message: if gemini_content and gemini_content[0]["role"] == "user": ..."
GeminiContents(messages) ==
    LET conv == ConvertMessagesToGeminiFormat(messages)
        gc   == conv.gemini_content
    IN  IF Truthy(conv.system_message) /\ Len(gc) > 0 /\ gc[1].role = "user"
        THEN [gc EXCEPT ![1].parts =
                 <<[text |-> SystemPrefixed(conv.system_message, gc[1].parts[1].text)]>>]
        ELSE gc

GoogleParams(kw, stream) ==
    LET g0 == [k \in {"temperature"} |-> kw[k]]
        g1 == CopyParam(g0, "max_output_tokens", kw, "max_tokens")
        g2 == CopyParam(g1, "top_p", kw, "top_p")
        g3 == CopyParam(g2, "stop_sequences", kw, "stop_sequences")
        p0 == [k \in {"model_name", "generation_config", "contents"} |->
                  CASE k = "model_name" -> kw["model"]
                    [] k = "generation_config" -> g3
                    [] k = "contents" -> GeminiContents(kw["messages"])]
    IN  WithStream(p0, stream)

\* ---- Cohere (cohere.py:60-83, 115-136, 200-222)
ConvertMessagesToCohereFormat(messages) ==
    [cohere_messages |->
        MapSeq(SelectSeq(messages, IsTurn),
               LAMBDA m : [role |-> IF m.role = "user" THEN "USER" ELSE "CHATBOT",
                           message |-> m.content]),
     preamble |-> SystemMessage(messages)]

CohereParams(kw, stream) ==
    LET conv == ConvertMessagesToCohereFormat(kw["messages"])
        cm   == conv.cohere_messages
        p0 == [k \in {"model", "message", "chat_history", "temperature"} |->
                  CASE k = "message" ->
                          IF Len(cm) > 0 THEN cm[Len(cm)].message ELSE ""
                    [] k = "chat_history" ->
                          IF Len(cm) > 1 THEN SubSeq(cm, 1, Len(cm) - 1) ELSE << >>
                    [] OTHER -> kw[k]]
        p1 == WithStream(p0, stream)
        p2 == IF conv.preamble # None
              THEN DictPut(p1, "preamble", conv.preamble)
              ELSE p1
        p3 == CopyParam(p2, "max_tokens", kw, "max_tokens")
        p4 == CopyParam(p3, "p", kw, "top_p")
        p5 == CopyParam(p4, "stop_sequences", kw, "stop_sequences")
    IN  MergeAdditional(p5, kw)

\* the request a variant hands to its vendor client
VendorRequest(variant, kw, stream) ==
    CASE variant = "openai"    -> OpenAIParams(kw, stream)
      [] variant = "anthropic" -> AnthropicParams(kw, stream)
      [] variant = "google"    -> GoogleParams(kw, stream)
      [] variant = "cohere"    -> CohereParams(kw, stream)

-----------------------------------------------------------------------------
(* generate_completion of the four variants *)

Usage(prompt_tokens, completion_tokens, total_tokens) ==
    [prompt_tokens |-> prompt_tokens, completion_tokens |-> completion_tokens,
     total_tokens |-> total_tokens]

\* message.content of a chat completion is Optional[str]: a text, the empty
\* text, or None when the assistant message carries no text (a tool call)
MessageContents == {"hi", "", None}

\* the usage counts are whatever the vendor reports
ReportedUsages == {Usage(3, 2, 5), Usage(3, 2, 6)}

AnthropicTotal_InputOnly(response) == response.input_tokens

\* anthropic.py:171: input_tokens + output_tokens
AnthropicTotal(response) == response.input_tokens + response.output_tokens

\* the vendor's answer to a non-streaming call
VendorResponses(variant) ==
    CASE variant = "openai" ->
            {[id |-> "r1", model |-> "m-0613", created |-> "t1", content |-> c,
              role |-> "assistant", finish_reason |-> f, usage |-> u] :
                c \in MessageContents, f \in {"stop", "tool_calls"},
                u \in ReportedUsages}
      [] variant = "anthropic" ->
            {[id |-> "r1", model |-> "m-0613", text |-> c, stop_reason |-> "end_turn",
              input_tokens |-> u.prompt_tokens, output_tokens |-> u.completion_tokens] :
                c \in {"hi", ""}, u \in ReportedUsages}
      [] variant = "google" ->
            {[text |-> "hi", prompt_token_count |-> 3, candidates_token_count |-> 2,
              total_token_count |-> 5]}
      [] variant = "cohere" ->
            {[generation_id |-> "g1", text |-> "hi",
              token_count |-> [prompt_tokens |-> 3, response_tokens |-> 2,
                               total_tokens |-> 5]]}

\* what the awaited vendor call does: it answers or it raises
VendorOutcomes(variant) ==
    {[kind |-> "ok", response |-> r] : r \in VendorResponses(variant)} \cup
    {[kind |-> "raise", exc |-> e] : e \in VendorFailures(variant)}

\* the result dict built from the vendor's answer
\* (openai.py:106-121, anthropic.py:160-175, google.py:142-165, cohere.py:142-161)
NormalizeResponse(variant, kw, response) ==
    CASE variant = "openai" ->
            [id |-> response.id, model |-> response.model, created |-> response.created,
             provider |-> "openai", content |-> response.content, role |-> response.role,
             finish_reason |-> response.finish_reason,
             usage |-> Usage(response.usage.prompt_tokens,
                             response.usage.completion_tokens,
                             response.usage.total_tokens)]
      [] variant = "anthropic" ->
            [id |-> response.id, model |-> response.model, created |-> None,
             provider |-> "anthropic", content |-> response.text, role |-> "assistant",
             finish_reason |-> response.stop_reason,
             usage |-> Usage(response.input_tokens, response.output_tokens,
                             AnthropicTotal(response))]
      [] variant = "google" ->
            [id |-> None, model |-> kw["model"], created |-> None,
             provider |-> "google", content |-> response.text, role |-> "assistant",
             finish_reason |-> None,
             usage |-> Usage(response.prompt_token_count,
                             response.candidates_token_count,
                             response.total_token_count)]
      [] variant = "cohere" ->
            [id |-> response.generation_id, model |-> kw["model"], created |-> None,
             provider |-> "cohere", content |-> response.text, role |-> "assistant",
             finish_reason |-> None,
             usage |-> Usage(response.token_count.prompt_tokens,
                             response.token_count.response_tokens,
                             response.token_count.total_tokens)]

\* the except clauses of generate_completion: the vendor's typed errors and
\* every other Exception both end in "return await self.handle_provider_error(e)"
CaughtByVariant(variant, e) == TRUE

\* generate_completion as a function of what the vendor call does: a result
\* dict or an ErrorResult returned, or an exception left to the caller
GenerateCompletion(variant, kw, outcome) ==
    IF outcome.kind = "ok"
    THEN [kind |-> "return", value |-> NormalizeResponse(variant, kw, outcome.response)]
    ELSE IF CaughtByVariant(variant, outcome.exc)
    THEN [kind |-> "return", value |-> HandleProviderError(variant, outcome.exc)]
    ELSE [kind |-> "raise", exc |-> outcome.exc]

-----------------------------------------------------------------------------
(* One non-streaming generate_completion call of a variant *)

MaxMsgs == 3

\* the keyword arguments of a call with the given messages and the defaults
\* of the signature for everything else
KwOf(messages) ==
    [k \in {"model", "messages", "temperature"} |->
        CASE k = "model" -> "m"
          [] k = "messages" -> messages
          [] k = "temperature" -> "0.7"]

NoOutcome == [kind |-> "none"]

VariantIdle ==
    /\ vpc = "off"
    /\ vvariant = None
    /\ vkw = EmptyDict
    /\ voutcome = NoOutcome
    /\ vrequest = EmptyDict
    /\ vresult = NoOutcome

\* a caller enters generate_completion of some variant
VariantInit ==
    /\ vpc = "start"
    /\ vvariant \in Variants
    /\ vkw \in {KwOf(ms) : ms \in BoundedSeq(MessageSet, MaxMsgs)}
    /\ voutcome \in VendorOutcomes(vvariant)
    /\ vrequest = EmptyDict
    /\ vresult = NoOutcome

\* the request is built and the vendor call awaited
SendRequest ==
    /\ vpc = "start"
    /\ vrequest' = VendorRequest(vvariant, vkw, FALSE)
    /\ vpc' = "sent"
    /\ UNCHANGED <<vvariant, vkw, voutcome, vresult>>
    /\ UNCHANGED variantOthers

\* the vendor call ends and generate_completion completes
CompleteRequest ==
    /\ vpc = "sent"
    /\ vresult' = GenerateCompletion(vvariant, vkw, voutcome)
    /\ vpc' = "done"
    /\ UNCHANGED <<vvariant, vkw, voutcome, vrequest>>
    /\ UNCHANGED variantOthers

VariantNext == SendRequest \/ CompleteRequest

-----------------------------------------------------------------------------
(* Claims about generate_completion *)

\* C9: whatever the vendor client raises during generate_completion, the call
\* returns (never raises) an ErrorResult with error = true and a non-empty
\* message.
C9_FailureGivesErrorResult ==
    (vpc = "done" /\ voutcome.kind = "raise") =>
        /\ vresult.kind = "return"
        /\ IsErrorResult(vresult.value)
        /\ vresult.value["error"] = TRUE
        /\ vresult.value["message"] # << >>

SystemIndexes(messages) == {i \in 1..Len(messages) : messages[i].role = "system"}

TurnTexts(messages) == MapSeq(SelectSeq(messages, IsTurn), LAMBDA m : m.content)

\* the request carries the system content c of messages exactly once, in the
\* vendor's system slot (Anthropic system, Cohere preamble) or as the
\* [SYSTEM: ...] prefix of the first user turn (Google)
CarriesSystemOnce(variant, messages, c, request) ==
    LET turns == SelectSeq(messages, IsTurn)
        texts == TurnTexts(messages)
        users == {i \in 1..Len(turns) : turns[i].role = "user"}
    IN  CASE variant = "anthropic" ->
                /\ "system" \in DOMAIN request
                /\ request["system"] = c
                /\ MapSeq(request["messages"], LAMBDA m : m.content) = texts
          [] variant = "cohere" ->
                /\ "preamble" \in DOMAIN request
                /\ request["preamble"] = c
                /\ IF texts = << >>
                   THEN request["message"] = "" /\ request["chat_history"] = << >>
                   ELSE MapSeq(request["chat_history"], LAMBDA m : m.message)
                            \o <<request["message"]>> = texts
          [] variant = "google" ->
                /\ users # {}
                /\ LET first == CHOOSE i \in users : \A j \in users : i <= j
                   IN  MapSeq(request["contents"], LAMBDA g : g.parts[1].text) =
                           [texts EXCEPT ![first] = SystemPrefixed(c, texts[first])]

\* C10: for a message sequence with at most one system-role message, at any
\* position, the request each of the Anthropic, Google and Cohere variants
\* builds carries that message's content exactly once, in the vendor's system
\* slot or (Google) as the [SYSTEM: ...] prefix of the first user turn.
C10_SystemCarriedOnce ==
    (/\ vpc \in {"sent", "done"}
     /\ vvariant \in {"anthropic", "google", "cohere"}
     /\ Cardinality(SystemIndexes(vkw["messages"])) = 1) =>
        CarriesSystemOnce(vvariant, vkw["messages"],
                          SystemMessage(vkw["messages"]), vrequest)

-----------------------------------------------------------------------------
(* ProviderFactory.generate_completion, non-streaming branch: the variant's  *)
(* generate_completion is awaited and its result returned as it is.          *)

FactoryGenerateCompletion(variant, kw, outcome) == GenerateCompletion(variant, kw, outcome)

-----------------------------------------------------------------------------
(* ProviderFactory.run_with_rate_limit_handling *)

MaxRetriesBound == 3
MaxScript == 2

DefaultBaseDelay == 1
DefaultMaxDelay == 60

Min(a, b) == IF a <= b THEN a ELSE b

BackoffDelay_Uncapped(base_delay, attempt, max_delay) == base_delay * (2 ^ attempt)

\* delay = min(base_delay * (2 ** retries), max_delay), attempt being the
\* value of retries
BackoffDelay(base_delay, attempt, max_delay) ==
    Min(base_delay * (2 ^ attempt), max_delay)

\* is_rate_limit (lines 306-316)
IsRateLimit(e) ==
    LET error_message == StrLower(e.msg)
    IN  \/ StrIn(<<"r", "a", "t", "e">>, error_message)
        \/ StrIn(<<"l", "i", "m", "i", "t">>, error_message)
        \/ StrIn(<<"c", "a", "p", "a", "c", "i", "t", "y">>, error_message)
        \/ StrIn(<<"4", "2", "9">>, error_message)
        \/ StrIn(<<"t", "o", "o", " ", "m", "a", "n", "y">>, error_message)
        \/ StrIn(<<"r", "a", "t", "e", "L", "i", "m", "i", "t", "E", "r", "r", "o", "r">>, e.type)

ShouldReraise_OutOfRetriesOnly(is_rate_limit, attempt, max_retries) ==
    attempt >= max_retries

\* if not is_rate_limit or retries >= max_retries: raise
ShouldReraise(is_rate_limit, attempt, max_retries) ==
    ~is_rate_limit \/ attempt >= max_retries

\* whether the attribute lookup asyncio.Random of line 327 succeeds: the
\* asyncio package exports no name Random
AsyncioHasRandom == FALSE

E_NoAsyncioRandom ==
    Exc(T_AttributeError, <<"m", "o", "d", "u", "l", "e", " ", "'", "a", "s", "y", "n", "c", "i", "o", "'", " ", "h", "a", "s", " ", "n", "o", " ", "a", "t", "t", "r", "i", "b", "u", "t", "e", " ", "'", "R", "a", "n", "d", "o", "m", "'">>)

\* awaiting a coroutine object that has already been awaited
E_CoroutineReused ==
    Exc(T_RuntimeError, <<"c", "a", "n", "n", "o", "t", " ", "r", "e", "u", "s", "e", " ", "a", "l", "r", "e", "a", "d", "y", " ", "a", "w", "a", "i", "t", "e", "d", " ", "c", "o", "r", "o", "u", "t", "i", "n", "e">>)

RawOutcomes ==
    {[kind |-> "return", value |-> [v |-> "ok"]]} \cup
    {[kind |-> "raise", exc |-> e] : e \in Failures}

NonEmptySeq(S, n) == UNION {[1..k -> S] : k \in 1..n}

\* The operations handed to the wrapper.  script[n] is what the n-th
\* execution of the operation's body does (the last entry repeats):
\*   raw         any coroutine; its body returns or raises
\*   completion  the coroutine of ProviderFactory.generate_completion(...,
\*               stream=False); script[n] is what the vendor call does
Operations ==
    {[kind |-> "raw", variant |-> None, script |-> s] :
        s \in NonEmptySeq(RawOutcomes, MaxScript)} \cup
    UNION {{[kind |-> "completion", variant |-> v, script |-> s] :
               s \in NonEmptySeq(VendorOutcomes(v), MaxScript)} : v \in Variants}

ScriptAt(op, n) == op.script[Min(n, Len(op.script))]

\* what the n-th execution of the operation's body returns or raises
ExecutionOutcome(op, n) ==
    IF op.kind = "raw"
    THEN ScriptAt(op, n)
    ELSE FactoryGenerateCompletion(op.variant, KwOf(<< >>), ScriptAt(op, n))

RetryIdle ==
    /\ rpc = "off"
    /\ rop = NoOutcome
    /\ rmax = 0
    /\ rbase = 0
    /\ rcap = 0
    /\ retries = 0
    /\ last_exception = None
    /\ rexc = None
    /\ coroAwaited = FALSE
    /\ attempts = 0
    /\ sleeps = 0
    /\ rdelay = 0
    /\ routcome = NoOutcome

\* a caller enters run_with_rate_limit_handling(coro, max_retries, base_delay,
\* max_delay): lines 296-297
RetryInit ==
    /\ rpc = "await"
    /\ rop \in Operations
    /\ rmax \in 0..MaxRetriesBound
    /\ rbase = DefaultBaseDelay
    /\ rcap = DefaultMaxDelay
    /\ retries = 0
    /\ last_exception = None
    /\ rexc = None
    /\ coroAwaited = FALSE
    /\ attempts = 0
    /\ sleeps = 0
    /\ rdelay = 0
    /\ routcome = NoOutcome

\* lines 299-301: "while retries <= max_retries: try: return await coro".
\* The first await runs the coroutine; a coroutine object cannot be awaited
\* again.  Lines 337-339 when the loop condition fails.
AwaitCoro ==
    /\ rpc = "await"
    /\ IF retries <= rmax
       THEN LET result == IF coroAwaited
                          THEN [kind |-> "raise", exc |-> E_CoroutineReused]
                          ELSE ExecutionOutcome(rop, attempts + 1)
            IN  /\ coroAwaited' = TRUE
                /\ attempts' = IF coroAwaited THEN attempts ELSE attempts + 1
                /\ IF result.kind = "return"
                   THEN /\ routcome' = result
                        /\ rpc' = "done"
                        /\ UNCHANGED rexc
                   ELSE /\ rexc' = result.exc
                        /\ rpc' = "except"
                        /\ UNCHANGED routcome
       ELSE /\ routcome' = IF last_exception # None
                           THEN [kind |-> "raise", exc |-> last_exception]
                           ELSE [kind |-> "return", value |-> None]
            /\ rpc' = "done"
            /\ UNCHANGED <<coroAwaited, attempts, rexc>>
    /\ UNCHANGED <<rop, rmax, rbase, rcap, retries, last_exception, sleeps, rdelay>>
    /\ UNCHANGED retryOthers

\* lines 302-335: the except clause.  The failure is re-raised, or the delay
\* is computed; the jitter of line 327 needs asyncio.Random, and the sleep of
\* line 334 and the next turn of the loop follow only if that lookup succeeds.
HandleException ==
    /\ rpc = "except"
    /\ last_exception' = rexc
    /\ IF ShouldReraise(IsRateLimit(rexc), retries, rmax)
       THEN /\ routcome' = [kind |-> "raise", exc |-> rexc]
            /\ rpc' = "done"
            /\ UNCHANGED <<retries, sleeps, rdelay>>
       ELSE /\ rdelay' = BackoffDelay(rbase, retries, rcap)
            /\ IF AsyncioHasRandom
               THEN /\ sleeps' = sleeps + 1
                    /\ retries' = retries + 1
                    /\ rpc' = "await"
                    /\ UNCHANGED routcome
               ELSE /\ routcome' = [kind |-> "raise", exc |-> E_NoAsyncioRandom]
                    /\ rpc' = "done"
                    /\ UNCHANGED <<retries, sleeps>>
    /\ UNCHANGED <<rop, rmax, rbase, rcap, rexc, coroAwaited, attempts>>
    /\ UNCHANGED retryOthers

RetryNext == AwaitCoro \/ HandleException

-----------------------------------------------------------------------------
(* Claims about run_with_rate_limit_handling *)

IsRateLimitRaise(o) == o.kind = "raise" /\ IsRateLimit(o.exc)

\* C3: with max_retries >= 1 and an operation that fails with a
\* rate-limit-classified failure on every attempt, the wrapper sleeps exactly
\* max_retries times and then raises the failure the operation produced.
C3_ExhaustedReraisesOriginal ==
    (/\ rpc = "done"
     /\ rop.kind = "raw"
     /\ rmax >= 1
     /\ \A i \in 1..Len(rop.script) : IsRateLimitRaise(rop.script[i])) =>
        /\ sleeps = rmax
        /\ routcome = [kind |-> "raise", exc |-> ExecutionOutcome(rop, rmax + 1).exc]

\* C4: when the operation fails with a rate-limit-classified failure on its
\* first k attempts (1 <= k <= max_retries) and succeeds on attempt k+1, the
\* wrapper sleeps k times, runs the operation k+1 times and returns the
\* result of attempt k+1.
C4_RetryThenSuccess ==
    \A k \in 1..MaxScript :
        (/\ rpc = "done"
         /\ rop.kind = "raw"
         /\ k <= rmax
         /\ k < Len(rop.script)
         /\ \A i \in 1..k : IsRateLimitRaise(rop.script[i])
         /\ rop.script[k + 1].kind = "return") =>
            /\ sleeps = k
            /\ attempts = k + 1
            /\ routcome = rop.script[k + 1]

\* C6: when the operation's first failure is not rate-limit-classified, the
\* wrapper runs the operation exactly once, never sleeps and raises that
\* failure unchanged, whatever max_retries is.
C6_NonRateLimitPropagates ==
    (/\ rop.kind = "raw"
     /\ rop.script[1].kind = "raise"
     /\ ~IsRateLimit(rop.script[1].exc)) =>
        /\ sleeps = 0
        /\ attempts <= 1
        /\ rpc = "done" =>
              /\ attempts = 1
              /\ routcome = [kind |-> "raise", exc |-> rop.script[1].exc]

\* C6 witness: a connection failure on the first attempt, with retries
\* allowed, has been raised to the caller.
C6_Witness ==
    /\ rpc = "done"
    /\ rop.kind = "raw"
    /\ rmax >= 1
    /\ rop.script[1] = [kind |-> "raise",
                        exc |-> Exc(T_APIConnectionError, M_ConnectionError)]
    /\ routcome = rop.script[1]
    /\ attempts = 1

\* C7: a non-streaming completion dispatched through
\* ProviderFactory.generate_completion and run under the wrapper, which the
\* vendor rejects with its rate-limit error while retries remain, is retried
\* after a backoff sleep instead of being handed back to the caller.
C7_RateLimitedCompletionRetried ==
    (/\ rpc = "done"
     /\ rop.kind = "completion"
     /\ rmax >= 1
     /\ rop.script[1] = [kind |-> "raise", exc |-> VendorRateLimit(rop.variant)]) =>
        /\ sleeps >= 1
        /\ attempts >= 2

-----------------------------------------------------------------------------
(* The pre-jitter delay of line 323 over the retry attempts *)

MaxBaseDelay == 3
MaxDelayCap == 8

BackoffIdle ==
    /\ bpc = "off"
    /\ bbase = 0
    /\ bcap = 0
    /\ bmax = 0
    /\ bdelays = << >>

BackoffInit ==
    /\ bpc = "run"
    /\ bbase \in 1..MaxBaseDelay
    /\ bcap \in 1..MaxDelayCap
    /\ bmax \in 0..MaxRetriesBound
    /\ bdelays = << >>

\* the delay of retry attempt Len(bdelays), for attempts 0..max_retries-1
ComputeDelay ==
    /\ bpc = "run"
    /\ Len(bdelays) < bmax
    /\ bdelays' = Append(bdelays, BackoffDelay(bbase, Len(bdelays), bcap))
    /\ UNCHANGED <<bpc, bbase, bcap, bmax>>
    /\ UNCHANGED backoffOthers

BackoffNext == ComputeDelay

\* C5 as stated: the pre-jitter delays of attempts 0..max_retries-1 are
\* strictly increasing and never exceed max_delay.
C5_StrictlyIncreasing ==
    /\ \A i \in 1..Len(bdelays) : bdelays[i] <= bcap
    /\ \A i \in 1..(Len(bdelays) - 1) : bdelays[i] < bdelays[i + 1]

\* C5 amended: the delays never exceed max_delay, never decrease, and
\* increase strictly from one attempt to the next as long as the delay is
\* below max_delay.
C5_NonDecreasingCapped ==
    /\ \A i \in 1..Len(bdelays) : bdelays[i] <= bcap
    /\ \A i \in 1..(Len(bdelays) - 1) :
          /\ bdelays[i] <= bdelays[i + 1]
          /\ bdelays[i] < bcap => bdelays[i] < bdelays[i + 1]

\* C5 witness: a run of three attempts in which the delay first grows and
\* then stays at the cap.
C5_Witness ==
    /\ Len(bdelays) >= 3
    /\ bdelays[1] < bdelays[2]
    /\ bdelays[2] = bdelays[3]
    /\ bdelays[3] = bcap

-----------------------------------------------------------------------------
(* generate_completion_stream of the four variants.  The generator runs     *)
(* when the consumer pulls: the request is built and the vendor stream      *)
(* opened on the first pull, then vendor events are read and turned into    *)
(* chunks.  schunks is the sequence of items the consumer has received.     *)

MaxEvents == 2

M_NotAsyncIterable == <<"'", "a", "s", "y", "n", "c", " ", "f", "o", "r", "'", " ", "r", "e", "q", "u", "i", "r", "e", "s", " ", "a", "n", " ", "o", "b", "j", "e", "c", "t", " ", "w", "i", "t", "h", " ", "_", "_", "a", "i", "t", "e", "r", "_", "_", " ", "m", "e", "t", "h", "o", "d", ",", " ", "g", "o", "t", " ", "g", "e", "n", "e", "r", "a", "t", "o", "r">>

\* x or ""
OrEmpty(x) == IF x = None \/ x = "" THEN "" ELSE x

RECURSIVE JoinText(_)
\* accumulated_text += chunk_text, over a sequence of texts
JoinText(texts) == IF texts = << >> THEN "" ELSE Head(texts) \o JoinText(Tail(texts))

\* the fields every chunk carries
StreamChunk(id, model, created, provider, content, role, finish_reason) ==
    [k \in {"id", "model", "created", "provider", "content", "role",
            "finish_reason", "is_chunk"} |->
        CASE k = "id" -> id
          [] k = "model" -> model
          [] k = "created" -> created
          [] k = "provider" -> provider
          [] k = "content" -> content
          [] k = "role" -> role
          [] k = "finish_reason" -> finish_reason
          [] k = "is_chunk" -> TRUE]

\* "is_final": True
WithFinal(chunk) == DictPut(chunk, "is_final", TRUE)

IsFinal(item) == "is_final" \in DOMAIN item /\ item["is_final"] = TRUE

\* ---- the items of the vendors' streams, with the attributes the code reads

\* OpenAI: a chunk with choices[0].delta and choices[0].finish_reason, or a
\* chunk whose choices list is empty
OpenAIDelta(content, role, finish_reason) ==
    [id |-> "c1", model |-> "m", created |-> "t0", choices |-> TRUE,
     content |-> content, role |-> role, finish_reason |-> finish_reason]

OpenAIBodyEvents ==
    {OpenAIDelta("a", None, None), OpenAIDelta(None, "assistant", None),
     [id |-> "c1", model |-> "m", created |-> "t0", choices |-> FALSE]}

OpenAILastEvents == {OpenAIDelta(None, None, "stop")}

AnthropicBodyEvents ==
    {[type |-> "message_start"],
     [type |-> "content_block_delta", text |-> "a"],
     [type |-> "content_block_delta", text |-> ""]}

AnthropicLastEvents == {[type |-> "message_stop", id |-> "msg1", stop_reason |-> "end_turn"]}

\* Gemini: response items, with or without a text attribute
GoogleBodyEvents == {[text |-> "a"], [text |-> None], [prompt_feedback |-> "ok"]}

\* Cohere: stream-start, text-generation and stream-end events
CohereBodyEvents ==
    {[generation_id |-> "g1", is_finished |-> FALSE],
     [text |-> "a", is_finished |-> FALSE],
     [text |-> "b", is_finished |-> FALSE]}

CohereLastEvents == {[is_finished |-> TRUE, finish_reason |-> "COMPLETE"]}

BodyEvents(variant) ==
    CASE variant = "openai" -> OpenAIBodyEvents
      [] variant = "anthropic" -> AnthropicBodyEvents
      [] variant = "google" -> GoogleBodyEvents
      [] variant = "cohere" -> CohereBodyEvents

\* how the vendor ends a stream that completes: its terminal event (Gemini
\* has none, the iterator just ends)
StreamEndings(variant) ==
    CASE variant = "openai" -> {<<e>> : e \in OpenAILastEvents}
      [] variant = "anthropic" -> {<<e>> : e \in AnthropicLastEvents}
      [] variant = "google" -> {<< >>}
      [] variant = "cohere" -> {<<e>> : e \in CohereLastEvents}

RaiseAt(at, e) == [kind |-> "raise", at |-> at, exc |-> e]

\* What the vendor does during a streaming call: a complete event sequence,
\* a failure of the call that opens the stream, or some events followed by a
\* failure while the next one is read.
StreamScripts(variant) ==
    {[events |-> body \o ending, fail |-> NoOutcome] :
        body \in BoundedSeq(BodyEvents(variant), MaxEvents),
        ending \in StreamEndings(variant)}
    \cup {[events |-> << >>, fail |-> RaiseAt("open", e)] : e \in VendorFailures(variant)}
    \cup {[events |-> body, fail |-> RaiseAt("read", e)] :
            body \in BoundedSeq(BodyEvents(variant), MaxEvents),
            e \in VendorFailures(variant)}

\* ---- the chunks each variant yields for one vendor item

\* openai.py:184-198
OpenAIChunks(chunk) ==
    IF chunk.choices
    THEN <<StreamChunk(chunk.id, chunk.model, chunk.created, "openai",
                       OrEmpty(chunk.content), chunk.role, chunk.finish_reason)>>
    ELSE << >>

\* anthropic.py:240-263
AnthropicChunks(kw, event) ==
    IF event.type = "content_block_delta"
    THEN <<StreamChunk(None, kw["model"], None, "anthropic", event.text,
                       "assistant", None)>>
    ELSE IF event.type = "message_stop"
    THEN <<WithFinal(StreamChunk(event.id, kw["model"], None, "anthropic", "",
                                 "assistant", event.stop_reason))>>
    ELSE << >>

\* google.py:243-257
GoogleChunks(kw, item) ==
    IF "text" \in DOMAIN item
    THEN <<StreamChunk(None, kw["model"], None, "google", OrEmpty(item.text),
                       "assistant", None)>>
    ELSE << >>

HasText(event) == "text" \in DOMAIN event /\ event.text # None

\* the texts accumulated from the first n vendor items
AccumulatedText(events, n) ==
    JoinText([i \in 1..Cardinality({j \in 1..n : "text" \in DOMAIN events[j]}) |->
                LET idx == CHOOSE j \in 1..n :
                             /\ "text" \in DOMAIN events[j]
                             /\ Cardinality({h \in 1..j : "text" \in DOMAIN events[h]}) = i
                IN  OrEmpty(events[idx].text)])

\* google.py:259-271
GoogleFinalChunk(kw, events) ==
    DictPut(WithFinal(StreamChunk(None, kw["model"], None, "google", "",
                                  "assistant", "stop")),
            "full_text", AccumulatedText(events, Len(events)))

\* generation_id after the first n events (cohere.py:233-235)
GenerationId(events, n) ==
    LET with == {j \in 1..n : "generation_id" \in DOMAIN events[j]}
    IN  IF with = {} THEN None
        ELSE events[CHOOSE j \in with : \A h \in with : j <= h].generation_id

\* cohere.py:231-276, for the n-th event
CohereChunks(kw, events, n) ==
    LET event == events[n]
        generation_id == GenerationId(events, n)
        text == IF HasText(event)
                THEN <<StreamChunk(generation_id, kw["model"], None, "cohere",
                                   event.text, "assistant", None)>>
                ELSE << >>
        final == IF "is_finished" \in DOMAIN event /\ event.is_finished
                 THEN <<DictPut(DictPut(
                            WithFinal(StreamChunk(generation_id, kw["model"], None,
                                                  "cohere", "", "assistant", "stop")),
                            "full_text", AccumulatedText(events, n)),
                            "usage", EmptyDict)>>
                 ELSE << >>
    IN  text \o final

\* the chunks yielded for the n-th vendor item
ChunksOf(variant, kw, events, n) ==
    CASE variant = "openai" -> OpenAIChunks(events[n])
      [] variant = "anthropic" -> AnthropicChunks(kw, events[n])
      [] variant = "google" -> GoogleChunks(kw, events[n])
      [] variant = "cohere" -> CohereChunks(kw, events, n)

\* asyncio.as_completed returns an object "async for" accepts only from
\* Python 3.13 on; before, the statement raises TypeError
E_NotAsyncIterable == Exc(T_TypeError, M_NotAsyncIterable)

\* the calls of the model
StreamCalls ==
    {KwOf(<<[role |-> "user", content |-> "a"]>>),
     KwOf(<<[role |-> "system", content |-> "b"], [role |-> "user", content |-> "a"]>>)}

StreamIdle ==
    /\ spc = "off"
    /\ svariant = None
    /\ skw = EmptyDict
    /\ sevents = << >>
    /\ sfail = NoOutcome
    /\ sasync = FALSE
    /\ srequest = EmptyDict
    /\ sread = 0
    /\ sproc = 0
    /\ schunks = << >>
    /\ svendor = "unopened"

\* a consumer holds the generator of some variant; nothing has run yet
StreamInit ==
    /\ spc = "start"
    /\ svariant \in Variants
    /\ skw \in StreamCalls
    /\ \E script \in StreamScripts(svariant) :
          /\ sevents = script.events
          /\ sfail = script.fail
    /\ sasync \in BOOLEAN
    /\ srequest = EmptyDict
    /\ sread = 0
    /\ sproc = 0
    /\ schunks = << >>
    /\ svendor = "unopened"

\* first pull: the request is built and the vendor stream opened; a failure
\* of that call is caught and yielded as an ErrorResult
OpenStream ==
    /\ spc = "start"
    /\ srequest' = VendorRequest(svariant, skw, TRUE)
    /\ IF sfail # NoOutcome /\ sfail.at = "open"
       THEN /\ schunks' = Append(schunks, HandleProviderError(svariant, sfail.exc))
            /\ spc' = "done"
            /\ svendor' = svendor
       ELSE /\ schunks' = schunks
            /\ spc' = "open"
            /\ svendor' = "open"
    /\ UNCHANGED <<svariant, skw, sevents, sfail, sasync, sread, sproc>>
    /\ UNCHANGED streamOthers

\* OpenAI, Anthropic, Cohere: the next vendor item is read and its chunks
\* yielded
ReadEvent ==
    /\ spc = "open"
    /\ svariant # "google"
    /\ sread < Len(sevents)
    /\ sread' = sread + 1
    /\ sproc' = sproc + 1
    /\ schunks' = schunks \o ChunksOf(svariant, skw, sevents, sread + 1)
    /\ UNCHANGED <<spc, svariant, skw, sevents, sfail, sasync, srequest, svendor>>
    /\ UNCHANGED streamOthers

\* Google: "async for chunk in asyncio.as_completed([to_thread(list(...))])"
\* then "await chunk": the whole vendor stream is read into a list
DrainStream ==
    /\ spc = "open"
    /\ svariant = "google"
    /\ IF ~sasync
       THEN /\ schunks' = Append(schunks, HandleProviderError(svariant, E_NotAsyncIterable))
            /\ sread' = sread
            /\ spc' = "done"
            /\ svendor' = svendor
       ELSE /\ sread' = Len(sevents)
            /\ svendor' = "ended"
            /\ IF sfail # NoOutcome
               THEN /\ schunks' = Append(schunks, HandleProviderError(svariant, sfail.exc))
                    /\ spc' = "done"
               ELSE /\ schunks' = schunks
                    /\ spc' = "drained"
    /\ UNCHANGED <<svariant, skw, sevents, sfail, sasync, srequest, sproc>>
    /\ UNCHANGED streamOthers

\* Google: the next item of the list is turned into a chunk
EmitItem ==
    /\ spc = "drained"
    /\ sproc < sread
    /\ sproc' = sproc + 1
    /\ schunks' = schunks \o ChunksOf(svariant, skw, sevents, sproc + 1)
    /\ UNCHANGED <<spc, svariant, skw, sevents, sfail, sasync, srequest, sread, svendor>>
    /\ UNCHANGED streamOthers

\* the vendor raises while the next item is read; the except clause yields
\* an ErrorResult
FailStream ==
    /\ spc = "open"
    /\ svariant # "google"
    /\ sread = Len(sevents)
    /\ sfail # NoOutcome
    /\ schunks' = Append(schunks, HandleProviderError(svariant, sfail.exc))
    /\ spc' = "done"
    /\ svendor' = "ended"
    /\ UNCHANGED <<svariant, skw, sevents, sfail, sasync, srequest, sread, sproc>>
    /\ UNCHANGED streamOthers

\* the vendor stream is exhausted and the generator ends; only Google yields
\* a chunk of its own here
EndStream ==
    /\ \/ spc = "open" /\ svariant # "google" /\ sread = Len(sevents)
       \/ spc = "drained" /\ sproc = sread
    /\ sfail = NoOutcome
    /\ schunks' = IF svariant = "google"
                  THEN Append(schunks, GoogleFinalChunk(skw, sevents))
                  ELSE schunks
    /\ spc' = "done"
    /\ svendor' = "ended"
    /\ UNCHANGED <<svariant, skw, sevents, sfail, sasync, srequest, sread, sproc>>
    /\ UNCHANGED streamOthers

\* the generator is suspended at a yield: the vendor item processed last
\* produced a chunk
AtYield ==
    /\ spc \in {"open", "drained"}
    /\ sproc > 0
    /\ ChunksOf(svariant, skw, sevents, sproc) # << >>

\* what closing the generator does to a vendor stream that is still open.
\* Anthropic iterates inside "async with stream as events", whose exit
\* closes the stream (anthropic.py:239).  OpenAI iterates with a bare
\* "async for chunk in stream" (openai.py:185) and Cohere with a bare
\* "for event in stream_response" (cohere.py:229): neither has a context
\* manager or a finally, so the stream is closed only when the interpreter
\* collects the vendor's iterator.  For Cohere's synchronous iterator that
\* may happen as the generator's frame is cleared; for OpenAI's asynchronous
\* one it is scheduled for later.
VendorAfterClose(variant, vendor) ==
    IF vendor # "open" THEN {vendor}
    ELSE CASE variant = "anthropic" -> {"closed"}
           [] variant = "openai" -> {"open"}
           [] variant = "cohere" -> {"open", "closed"}
           [] variant = "google" -> {"open"}

\* the consumer stops before the end and the generator is closed (aclose):
\* GeneratorExit is raised at the yield; no except clause catches it
CloseGenerator ==
    /\ AtYield
    /\ spc' = "closed"
    /\ svendor' \in VendorAfterClose(svariant, svendor)
    /\ UNCHANGED <<svariant, skw, sevents, sfail, sasync, srequest, sread, sproc, schunks>>
    /\ UNCHANGED streamOthers

StreamNext ==
    \/ OpenStream \/ ReadEvent \/ DrainStream \/ EmitItem \/ FailStream \/ EndStream
    \/ CloseGenerator

-----------------------------------------------------------------------------
(* Claims about generate_completion_stream *)

FinalIndexes(items) == {i \in 1..Len(items) : IsFinal(items[i])}

\* C8: for every variant and every vendor event sequence of a streaming call
\* that completes without error, the items yielded contain exactly one chunk
\* with is_final = true, and it is the last item yielded.
C8_ExactlyOneFinalLast ==
    (spc = "done" /\ sfail = NoOutcome) =>
        FinalIndexes(schunks) = {Len(schunks)} /\ Len(schunks) > 0

-----------------------------------------------------------------------------
(* ProviderFactory.list_all_models and the variants' get_models *)

MaxProviders == 3

\* the provider names of an api_keys dict
ListedNames == {"openai", "anthropic", "google", "unknownvendor"}

\* a dict's items(): distinct keys, in insertion order
KeyOrders(S, n) ==
    {seq \in BoundedSeq(S, n) : \A i, j \in 1..Len(seq) : i # j => seq[i] # seq[j]}

ModelInfo(id, provider) == [id |-> id, provider |-> provider]

M_GPT4 == <<"g", "p", "t", "-", "4">>
M_Whisper == <<"w", "h", "i", "s", "p", "e", "r", "-", "1">>
M_GeminiPro == <<"m", "o", "d", "e", "l", "s", "/", "g", "e", "m", "i", "n", "i", "-", "p", "r", "o">>
M_Embedding == <<"m", "o", "d", "e", "l", "s", "/", "e", "m", "b", "e", "d", "d", "i", "n", "g", "-", "0", "0", "1">>
M_ClaudeHaiku == <<"c", "l", "a", "u", "d", "e", "-", "3", "-", "h", "a", "i", "k", "u", "-", "2", "0", "2", "4", "0", "3", "0", "7">>
M_ClaudeOpus == <<"c", "l", "a", "u", "d", "e", "-", "3", "-", "o", "p", "u", "s", "-", "2", "0", "2", "4", "0", "2", "2", "9">>
M_Command == <<"c", "o", "m", "m", "a", "n", "d">>
M_CommandR == <<"c", "o", "m", "m", "a", "n", "d", "-", "r">>

StartsWith(s, prefix) == Len(s) >= Len(prefix) /\ SubSeq(s, 1, Len(prefix)) = prefix

\* what the vendor's model listing answers: OpenAI model ids, Gemini models
\* with their supported_generation_methods
OpenAIListing == <<[id |-> M_GPT4], [id |-> M_Whisper]>>

GoogleListing ==
    <<[name |-> M_GeminiPro, supported_generation_methods |-> {"generateContent"}],
      [name |-> M_Embedding, supported_generation_methods |-> {"embedContent"}]>>

\* openai.py:33-37
KeepsOpenAIModel(id) ==
    \/ StartsWith(id, <<"g", "p", "t">>)
    \/ StrIn(<<"t", "e", "x", "t", "-">>, id)
    \/ StrIn(<<"d", "a", "v", "i", "n", "c", "i">>, id)

\* google.py:34-37
KeepsGoogleModel(model) ==
    /\ model.supported_generation_methods # {}
    /\ "generateContent" \in model.supported_generation_methods

\* the items of a sequence that pass a test, in order
FilterSeq(seq, Keep(_)) ==
    LET RECURSIVE Upto(_)
        Upto(n) == IF n = 0 THEN << >>
                   ELSE Upto(n - 1) \o (IF Keep(seq[n]) THEN <<seq[n]>> ELSE << >>)
    IN  Upto(Len(seq))

KeepsOpenAIEntry(entry) == KeepsOpenAIModel(entry.id)

AsList(items) == [kind |-> "list", items |-> items]
AsDict(value) == [kind |-> "dict", value |-> value]

\* what the vendor's listing call does
ListingOutcomes(variant) ==
    {[kind |-> "ok"]}
    \cup {[kind |-> "raise", exc |-> e] :
            e \in {VendorRateLimit(variant), Exc(T_TimeoutError, M_Empty)}}

\* get_models of the four variants (openai.py:21-51, anthropic.py:21-75,
\* google.py:21-52, cohere.py:19-59): a list of model dicts, or the dict of
\* handle_provider_error
GetModels(variant, outcome) ==
    CASE variant = "openai" ->
            IF outcome.kind = "raise"
            THEN AsDict(HandleProviderError(variant, outcome.exc))
            ELSE LET kept == FilterSeq(OpenAIListing, KeepsOpenAIEntry)
                 IN  AsList([i \in 1..Len(kept) |-> ModelInfo(kept[i].id, "openai")])
      [] variant = "google" ->
            IF outcome.kind = "raise"
            THEN AsDict(HandleProviderError(variant, outcome.exc))
            ELSE LET kept == FilterSeq(GoogleListing, KeepsGoogleModel)
                 IN  AsList([i \in 1..Len(kept) |-> ModelInfo(kept[i].name, "google")])
      [] variant = "anthropic" ->
            AsList(<<ModelInfo(M_ClaudeOpus, "anthropic"), ModelInfo(M_ClaudeHaiku, "anthropic")>>)
      [] variant = "cohere" ->
            AsList(<<ModelInfo(M_Command, "cohere"), ModelInfo(M_CommandR, "cohere")>>)

\* the keys of a dict, as list.extend iterates them
DictKeys(d) ==
    LET RECURSIVE Enum(_)
        Enum(S) == IF S = {} THEN << >>
                   ELSE LET k == CHOOSE x \in S : TRUE IN <<k>> \o Enum(S \ {k})
    IN  Enum(DOMAIN d)

Contribution_Any(result) ==
    IF result.kind = "list" THEN result.items ELSE DictKeys(result.value)

\* if isinstance(result, list): all_models.extend(result)
Contribution(result) == IF result.kind = "list" THEN result.items ELSE << >>

RECURSIVE Concat(_)
Concat(seqs) == IF seqs = << >> THEN << >> ELSE Head(seqs) \o Concat(Tail(seqs))

NewTask == [pc |-> "new", provider |-> 0, result |-> NoOutcome]

ModelsIdle ==
    /\ mpc = "off"
    /\ mkeys = << >>
    /\ mtask = << >>
    /\ mreturn = NoOutcome

\* list_all_models is called on a fresh factory; lines 109-129 create one
\* coroutine per item of api_keys and hand them to asyncio.gather
ModelsInit ==
    /\ mpc = "gather"
    /\ mkeys \in KeyOrders(ListedNames, MaxProviders)
    /\ mtask = [i \in 1..Len(mkeys) |-> NewTask]
    /\ mreturn = NoOutcome

\* a task's "provider = await self.get_provider(pname, pkey, org_id)"
\* (factory.py:120, 40-66); an exception is caught at line 123 and the task
\* returns [].  ok: whether the vendor client constructor completes.
TaskGetProvider(i, ok) ==
    /\ mpc = "gather"
    /\ mtask[i].pc = "new"
    /\ LET name  == mkeys[i]
           key   == ProviderKey(name, "k1", None)
           provs == NameDict(providers, name)
           cls   == RegistryGet(name)
           id    == Len(instances) + 1
       IN  /\ locks' = IF name \notin DOMAIN locks THEN DictPut(locks, name, 0) ELSE locks
           /\ IF ~NeedsConstruction(provs, name, key)
              THEN /\ providers' = provs
                   /\ instances' = instances
                   /\ mtask' = [mtask EXCEPT ![i] = [pc |-> "provider",
                                    provider |-> provs[name][key], result |-> NoOutcome]]
              ELSE IF cls # None /\ ok
              THEN /\ instances' = Append(instances,
                          [name |-> name, key |-> key, cls |-> cls,
                           api_key |-> "k1", organization_id |-> None])
                   /\ providers' = DictPut(provs, name, DictPut(provs[name], key, id))
                   /\ mtask' = [mtask EXCEPT ![i] = [pc |-> "provider",
                                    provider |-> id, result |-> NoOutcome]]
              ELSE /\ providers' = provs
                   /\ instances' = instances
                   /\ mtask' = [mtask EXCEPT ![i] = [pc |-> "done",
                                    provider |-> 0, result |-> AsList(<< >>)]]
    /\ UNCHANGED <<mpc, mkeys, mreturn>>
    /\ UNCHANGED modelsOthers

\* a task's "models = await provider.get_models(); return models"
TaskGetModels(i) ==
    /\ mpc = "gather"
    /\ mtask[i].pc = "provider"
    /\ \E outcome \in ListingOutcomes(LowerName(mkeys[i])) :
          mtask' = [mtask EXCEPT ![i] = [pc |-> "done", provider |-> mtask[i].provider,
                      result |-> GetModels(LowerName(mkeys[i]), outcome)]]
    /\ UNCHANGED <<mpc, mkeys, mreturn>>
    /\ UNCHANGED <<providers, locks, instances>>
    /\ UNCHANGED modelsOthers

\* asyncio.gather returns the tasks' values in order; lines 134-142
GatherResults ==
    /\ mpc = "gather"
    /\ \A i \in 1..Len(mkeys) : mtask[i].pc = "done"
    /\ mreturn' = [kind |-> "return",
                   value |-> Concat([i \in 1..Len(mkeys) |-> Contribution(mtask[i].result)])]
    /\ mpc' = "done"
    /\ UNCHANGED <<mkeys, mtask>>
    /\ UNCHANGED <<providers, locks, instances>>
    /\ UNCHANGED modelsOthers

ModelsNext ==
    \/ \E i \in 1..Len(mkeys), ok \in BOOLEAN : TaskGetProvider(i, ok)
    \/ \E i \in 1..Len(mkeys) : TaskGetModels(i)
    \/ GatherResults

-----------------------------------------------------------------------------
(* Claims about list_all_models *)

\* a provider succeeded: it was obtained and its get_models returned a list
Succeeded(i) == mtask[i].provider # 0 /\ mtask[i].result.kind = "list"

\* C11: list_all_models never raises; it returns exactly the concatenation,
\* in the order of api_keys, of the model lists of the providers that
\* succeeded, and nothing for those that failed (unknown name, constructor
\* error, get_models returning an ErrorResult).
C11_CollectsSuccesses ==
    mpc = "done" =>
        /\ mreturn.kind = "return"
        /\ mreturn.value =
              Concat([i \in 1..Len(mkeys) |->
                        IF Succeeded(i) THEN mtask[i].result.items ELSE << >>])

\* a call in which one provider succeeded with models, one was unknown or not
\* constructed, and one get_models returned an ErrorResult
C11_Witness ==
    /\ mpc = "done"
    /\ \E i \in 1..Len(mkeys) : Succeeded(i) /\ mtask[i].result.items # << >>
    /\ \E i \in 1..Len(mkeys) : mtask[i].provider = 0
    /\ \E i \in 1..Len(mkeys) : mtask[i].result.kind = "dict"
    /\ mreturn.value # << >>

-----------------------------------------------------------------------------
(* ProviderFactory.get_provider_for_model *)

MaxParts == 2

\* model identifiers are built from these fragments
IdFragments ==
    {<<"g", "p", "t">>,
     <<"G", "P", "T">>,
     <<"t", "e", "x", "t", "-">>,
     <<"d", "a", "v", "i", "n", "c", "i">>,
     <<"o", "p", "e", "n", "a", "i">>,
     <<"c", "l", "a", "u", "d", "e">>,
     <<"C", "l", "a", "u", "d", "e">>,
     <<"a", "n", "t", "h", "r", "o", "p", "i", "c">>,
     <<"g", "e", "m", "i", "n", "i">>,
     <<"p", "a", "l", "m">>,
     <<"g", "o", "o", "g", "l", "e">>,
     <<"c", "o", "m", "m", "a", "n", "d">>,
     <<"c", "o", "h", "e", "r", "e">>,
     <<"l", "l", "a", "m", "a">>,
     <<"-", "3", "-", "h", "a", "i", "k", "u", "-", "2", "0", "2", "4", "0", "3", "0", "7">>}

ModelIds == {Concat(parts) : parts \in NonEmptySeq(IdFragments, MaxParts)}

LowerCased_Not(model_id) == model_id

\* model_id = model_id.lower()
LowerCased(model_id) == StrLower(model_id)

\* factory.py:254-257
MatchesOpenAI(model_id) ==
    \/ StartsWith(model_id, <<"g", "p", "t">>)
    \/ StartsWith(model_id, <<"t", "e", "x", "t", "-">>)
    \/ StartsWith(model_id, <<"d", "a", "v", "i", "n", "c", "i">>)
    \/ StrIn(<<"o", "p", "e", "n", "a", "i">>, model_id)

\* factory.py:261
MatchesAnthropic(model_id) ==
    StrIn(<<"c", "l", "a", "u", "d", "e">>, model_id) \/ StrIn(<<"a", "n", "t", "h", "r", "o", "p", "i", "c">>, model_id)

\* factory.py:265
MatchesGoogle(model_id) ==
    StrIn(<<"g", "e", "m", "i", "n", "i">>, model_id) \/ StrIn(<<"p", "a", "l", "m">>, model_id) \/ StrIn(<<"g", "o", "o", "g", "l", "e">>, model_id)

MatchesCohere_CommandOnly(model_id) == StrIn(<<"c", "o", "m", "m", "a", "n", "d">>, model_id)

\* factory.py:269
MatchesCohere(model_id) ==
    StrIn(<<"c", "o", "m", "m", "a", "n", "d">>, model_id) \/ StrIn(<<"c", "o", "h", "e", "r", "e">>, model_id)

Returns(value) == [kind |-> "return", value |-> value]
Raises(type) == [kind |-> "raise", type |-> type]

GetProviderForModel(model_id) ==
    LET id == LowerCased(model_id)
    IN  IF MatchesOpenAI(id) THEN Returns("openai")
        ELSE IF MatchesAnthropic(id) THEN Returns("anthropic")
        ELSE IF MatchesGoogle(id) THEN Returns("google")
        ELSE IF MatchesCohere(id) THEN Returns("cohere")
        ELSE Raises("ValueError")

RouteIdle ==
    /\ gpc = "off"
    /\ gid = << >>
    /\ gresult = NoOutcome

RouteInit ==
    /\ gpc = "call"
    /\ gid \in ModelIds
    /\ gresult = NoOutcome

GetProviderForModelCall ==
    /\ gpc = "call"
    /\ gresult' = GetProviderForModel(gid)
    /\ gpc' = "done"
    /\ UNCHANGED gid
    /\ UNCHANGED routeOthers

RouteNext == GetProviderForModelCall

-----------------------------------------------------------------------------
(* Claims about get_provider_for_model *)

\* the vendor name tokens, by provider name
VendorTokens(vendor) ==
    CASE vendor = "openai" -> {<<"o", "p", "e", "n", "a", "i">>}
      [] vendor = "anthropic" -> {<<"a", "n", "t", "h", "r", "o", "p", "i", "c">>, <<"c", "l", "a", "u", "d", "e">>}
      [] vendor = "google" -> {<<"g", "o", "o", "g", "l", "e">>, <<"g", "e", "m", "i", "n", "i">>}
      [] vendor = "cohere" -> {<<"c", "o", "h", "e", "r", "e">>, <<"c", "o", "m", "m", "a", "n", "d">>}

HasToken(vendor, id) == \E t \in VendorTokens(vendor) : StrIn(t, StrLower(id))

\* C12 as stated: every identifier containing a vendor name token, in any
\* letter case, maps to that vendor, and every identifier starting with
\* "gpt" maps to "openai".
C12_TokenMapsToVendor ==
    gpc = "done" =>
        /\ \A v \in Variants : HasToken(v, gid) => gresult = Returns(v)
        /\ StartsWith(StrLower(gid), <<"g", "p", "t">>) => gresult = Returns("openai")

\* the order in which the heuristics are tried
VendorOrder == <<"openai", "anthropic", "google", "cohere">>

\* an earlier heuristic of the chain applies to the identifier: a token of a
\* vendor tried before v, an OpenAI prefix, or "palm" before Cohere
EarlierMatch(v, id) ==
    LET low == StrLower(id)
        at == CHOOSE i \in 1..4 : VendorOrder[i] = v
    IN  \/ \E i \in 1..(at - 1) : HasToken(VendorOrder[i], id)
        \/ at > 1 /\ \/ StartsWith(low, <<"g", "p", "t">>)
                     \/ StartsWith(low, <<"t", "e", "x", "t", "-">>)
                     \/ StartsWith(low, <<"d", "a", "v", "i", "n", "c", "i">>)
        \/ at > 3 /\ StrIn(<<"p", "a", "l", "m">>, low)

\* C12 amended: an identifier containing a vendor name token, in any letter
\* case, maps to that vendor unless a heuristic tried earlier (openai, then
\* anthropic, then google, then cohere) applies to it; every identifier
\* starting with "gpt" maps to "openai"; "claude-3-haiku-20240307" maps to
\* "anthropic".
C12_FirstMatchingVendor ==
    gpc = "done" =>
        /\ \A v \in Variants :
              (HasToken(v, gid) /\ ~EarlierMatch(v, gid)) => gresult = Returns(v)
        /\ StartsWith(StrLower(gid), <<"g", "p", "t">>) => gresult = Returns("openai")
        /\ gid = <<"c", "l", "a", "u", "d", "e", "-", "3", "-", "h", "a", "i", "k", "u", "-", "2", "0", "2", "4", "0", "3", "0", "7">> => gresult = Returns("anthropic")

\* "claude-3-haiku-20240307" was mapped to "anthropic"
C12_Witness ==
    /\ gpc = "done"
    /\ gid = <<"c", "l", "a", "u", "d", "e", "-", "3", "-", "h", "a", "i", "k", "u", "-", "2", "0", "2", "4", "0", "3", "0", "7">>
    /\ gresult = Returns("anthropic")

\* C13: get_provider_for_model raises ValueError exactly when the lower-cased
\* identifier matches none of the prefix/substring heuristics, and a name it
\* returns is a key of PROVIDER_REGISTRY.
C13_RaisesIffNoHeuristic ==
    gpc = "done" =>
        LET low == StrLower(gid)
            none == /\ ~StartsWith(low, <<"g", "p", "t">>)
                    /\ ~StartsWith(low, <<"t", "e", "x", "t", "-">>)
                    /\ ~StartsWith(low, <<"d", "a", "v", "i", "n", "c", "i">>)
                    /\ \A t \in {<<"o", "p", "e", "n", "a", "i">>, <<"c", "l", "a", "u", "d", "e">>, <<"a", "n", "t", "h", "r", "o", "p", "i", "c">>, <<"g", "e", "m", "i", "n", "i">>,
                                 <<"p", "a", "l", "m">>, <<"g", "o", "o", "g", "l", "e">>, <<"c", "o", "m", "m", "a", "n", "d">>, <<"c", "o", "h", "e", "r", "e">>} :
                          ~StrIn(t, low)
        IN  /\ gresult = Raises("ValueError") <=> none
            /\ gresult.kind = "return" =>
                  /\ gresult.value \in DOMAIN PROVIDER_REGISTRY
                  /\ RegistryGet(gresult.value) # None

\* an identifier that carries no token and no prefix raised
C13_Witness ==
    /\ gpc = "done"
    /\ gid = <<"l", "l", "a", "m", "a">>
    /\ gresult = Raises("ValueError")

-----------------------------------------------------------------------------
(* Claims about failures during generate_completion_stream *)

\* the chunks of the vendor items delivered before the failure
ChunksDelivered ==
    Concat([n \in 1..Len(sevents) |-> ChunksOf(svariant, skw, sevents, n)])

\* C14: when the vendor fails at the start of or in the middle of a streaming
\* call, the items yielded are the chunks already delivered followed by
\* exactly one ErrorResult (error = true), which is the last item; the
\* generator then ends without raising.
C14_FailureYieldsOneErrorLast ==
    (spc = "done" /\ sfail # NoOutcome) =>
        LET n == Len(schunks)
        IN  /\ n > 0
            /\ IsErrorResult(schunks[n]) /\ schunks[n]["error"] = TRUE
            /\ \A i \in 1..(n - 1) : ~IsErrorResult(schunks[i]) /\ schunks[i]["is_chunk"] = TRUE
            /\ svariant # "google" => SubSeq(schunks, 1, n - 1) = ChunksDelivered
            /\ svariant = "google" => n = 1

\* a stream that delivered a chunk and then failed in the middle
C14_Witness ==
    /\ spc = "done"
    /\ sfail # NoOutcome
    /\ sfail.at = "read"
    /\ Len(schunks) >= 2
    /\ IsErrorResult(schunks[Len(schunks)])

-----------------------------------------------------------------------------
(* The request each variant builds from the parameters of a call *)

\* the optional generation parameters a caller may pass, with a value
OptionalParams ==
    [k \in {"max_tokens", "top_p", "stop_sequences", "presence_penalty",
            "frequency_penalty"} |->
        CASE k = "max_tokens" -> "100"
          [] k = "top_p" -> "0.9"
          [] k = "stop_sequences" -> <<"END">>
          [] k = "presence_penalty" -> "0.5"
          [] k = "frequency_penalty" -> "0.3"]

\* additional_params: None (absent), empty, colliding with a mapped
\* parameter, or a vendor-specific key
AdditionalParams ==
    {EmptyDict,
     [k \in {"temperature"} |-> "0.1"],
     [k \in {"max_tokens"} |-> "5"],
     [k \in {"seed"} |-> "42"]}

Restrict(d, keys) == [k \in (DOMAIN d) \cap keys |-> d[k]]

Without(d, keys) == [k \in (DOMAIN d) \ keys |-> d[k]]

\* the calls of the model: the defaults of the signature, plus any subset of
\* the optional parameters, with or without additional_params
ParamCalls ==
    LET base == KwOf(<<[role |-> "user", content |-> "a"]>>)
        opts == {Restrict(OptionalParams, ks) : ks \in SUBSET DOMAIN OptionalParams}
    IN  {DictUpdate(base, o) : o \in opts}
        \cup {DictPut(DictUpdate(base, o), "additional_params", ap) :
                o \in opts, ap \in AdditionalParams}

ParamsIdle ==
    /\ ppc = "off"
    /\ pvariant = None
    /\ pkw = EmptyDict
    /\ pstream = FALSE
    /\ prequest = EmptyDict

ParamsInit ==
    /\ ppc = "call"
    /\ pvariant \in Variants
    /\ pkw \in ParamCalls
    /\ pstream \in BOOLEAN
    /\ prequest = EmptyDict

\* the variant builds the request up to the vendor call
BuildRequest ==
    /\ ppc = "call"
    /\ prequest' = VendorRequest(pvariant, pkw, pstream)
    /\ ppc' = "built"
    /\ UNCHANGED <<pvariant, pkw, pstream>>
    /\ UNCHANGED paramsOthers

ParamsNext == BuildRequest

-----------------------------------------------------------------------------
(* Claims about the request *)

\* the request carries value under key, at top level or, for Gemini, in the
\* generation_config
Sends(request, key, value) ==
    \/ key \in DOMAIN request /\ request[key] = value
    \/ /\ "generation_config" \in DOMAIN request
       /\ key \in DOMAIN request["generation_config"]
       /\ request["generation_config"][key] = value

HasKey(request, key) ==
    \/ key \in DOMAIN request
    \/ "generation_config" \in DOMAIN request /\ key \in DOMAIN request["generation_config"]

\* C15: for every variant, streaming or not, every key of additional_params
\* reaches the vendor request with the additional_params value, also when it
\* collides with a mapped parameter.
C15_AdditionalParamsMergedLast ==
    (ppc = "built" /\ "additional_params" \in DOMAIN pkw) =>
        \A k \in DOMAIN pkw["additional_params"] :
            Sends(prequest, k, pkw["additional_params"][k])

\* C16: when the caller gives no max_tokens and no additional_params, the
\* request of the Anthropic variant still contains a max_tokens field.
C16_AnthropicDefaultMaxTokens ==
    (/\ ppc = "built"
     /\ pvariant = "anthropic"
     /\ "max_tokens" \notin DOMAIN pkw
     /\ "additional_params" \notin DOMAIN pkw) =>
        "max_tokens" \in DOMAIN prequest

Penalties == {"presence_penalty", "frequency_penalty"}

\* C17: with no additional_params, the requests of Anthropic, Google and
\* Cohere never contain presence_penalty or frequency_penalty and are the
\* requests of the same call without the penalties; OpenAI forwards each of
\* the two exactly when it is given.
C17_PenaltiesOnlyForOpenAI ==
    (ppc = "built" /\ "additional_params" \notin DOMAIN pkw) =>
        /\ pvariant # "openai" =>
              /\ \A p \in Penalties : ~HasKey(prequest, p)
              /\ prequest = VendorRequest(pvariant, Without(pkw, Penalties), pstream)
        /\ pvariant = "openai" =>
              \A p \in Penalties :
                  /\ p \in DOMAIN prequest <=> p \in DOMAIN pkw
                  /\ p \in DOMAIN pkw => prequest[p] = pkw[p]

\* requests were built from calls that pass both penalties: one by a variant
\* that drops them, one by OpenAI
C17_Witness ==
    /\ ppc = "built"
    /\ "additional_params" \notin DOMAIN pkw
    /\ Penalties \subseteq DOMAIN pkw
    /\ pvariant = "openai"
    /\ Penalties \subseteq DOMAIN prequest

-----------------------------------------------------------------------------
(* Rate-limit classification: the variants' handle_provider_error and the   *)
(* is_rate_limit of run_with_rate_limit_handling, on the same failure       *)

M_SlowDown == <<"P", "l", "e", "a", "s", "e", " ", "s", "l", "o", "w", " ", "d", "o", "w", "n">>
M_LimitExceeded == <<"R", "e", "q", "u", "e", "s", "t", " ", "L", "I", "M", "I", "T", " ", "e", "x", "c", "e", "e", "d", "e", "d">>
M_AtCapacity == <<"M", "o", "d", "e", "l", " ", "i", "s", " ", "a", "t", " ", "c", "a", "p", "a", "c", "i", "t", "y">>

\* the exception classes a variant's vendor call raises
VendorTypes(variant) == {e.type : e \in VendorFailures(variant)}

FailureMessages ==
    {M_RateLimitReached, M_TooManyRequests, M_QuotaExhausted, M_LimitExceeded,
     M_AtCapacity, M_SlowDown, M_FailedToGenerate, M_Empty}

ClassifyIdle ==
    /\ cpc = "off"
    /\ cvariant = None
    /\ cexc = NoOutcome
    /\ cerror = EmptyDict
    /\ cwrapper = FALSE

\* a vendor call of some variant raises
ClassifyInit ==
    /\ cpc = "raised"
    /\ cvariant \in Variants
    /\ cexc \in {Exc(t, m) : t \in VendorTypes(cvariant), m \in FailureMessages}
    /\ cerror = EmptyDict
    /\ cwrapper = FALSE

\* the variant's handle_provider_error builds the error dict, and the retry
\* wrapper evaluates is_rate_limit on the same exception
Classify ==
    /\ cpc = "raised"
    /\ cerror' = HandleProviderError(cvariant, cexc)
    /\ cwrapper' = IsRateLimit(cexc)
    /\ cpc' = "classified"
    /\ UNCHANGED <<cvariant, cexc>>
    /\ UNCHANGED classifyOthers

ClassifyNext == Classify

-----------------------------------------------------------------------------
(* Claims about the classification *)

\* the vendor SDK's typed rate-limit error (the Cohere SDK has none)
TypedRateLimit(variant, e) ==
    CASE variant \in {"openai", "anthropic"} -> IsInstance(e, T_RateLimitError)
      [] variant = "google" -> IsInstance(e, T_ResourceExhausted)
      [] variant = "cohere" -> FALSE

\* the message contains "rate", "limit", "429" or "too many", in any case
MessageSaysRateLimit(e) ==
    \E t \in {<<"r", "a", "t", "e">>, <<"l", "i", "m", "i", "t">>, <<"4", "2", "9">>, <<"t", "o", "o", " ", "m", "a", "n", "y">>} : StrIn(t, StrLower(e.msg))

\* C18: handle_provider_error attaches retry_after = 60 to every failure that
\* is a rate-limit condition, typed or recognisable from the message only,
\* and to no other failure.
C18_RetryAfterOnRateLimit ==
    cpc = "classified" =>
        (("retry_after" \in DOMAIN cerror /\ cerror["retry_after"] = 60)
            <=> (TypedRateLimit(cvariant, cexc) \/ MessageSaysRateLimit(cexc)))

\* C19: the retry wrapper treats a failure as rate-limiting if and only if
\* the variant's handle_provider_error attaches retry_after; in particular
\* a failure of a type named RateLimitError is rate-limiting for the wrapper
\* whatever its message.
C19_SameClassification ==
    cpc = "classified" =>
        /\ cwrapper <=> "retry_after" \in DOMAIN cerror
        /\ cexc.type = T_RateLimitError => cwrapper

-----------------------------------------------------------------------------
(* ProviderFactory.generate_completion: the provider is obtained, then the   *)
(* call is handed to the variant's generate_completion_stream or            *)
(* generate_completion                                                      *)

\* the parameters of the variants' generate_completion(_stream)
VariantParamNames ==
    {"model", "messages", "max_tokens", "temperature", "top_p", "stop_sequences",
     "presence_penalty", "frequency_penalty", "additional_params"}

ForwardedParams_NoAdditional(fkw) ==
    Restrict(fkw, VariantParamNames \ {"additional_params"})

\* the keyword arguments of lines 182-192 and 194-204
ForwardedParams(fkw) == Restrict(fkw, VariantParamNames)

DispatchNames == Variants \cup {"unknownvendor"}

\* the calls of the factory: a provider name, a credential, stream or not,
\* and the parameters of a completion
DispatchCalls ==
    {DictUpdate(kw, [k \in {"provider_name", "api_key", "stream"} |->
                        CASE k = "provider_name" -> name
                          [] k = "api_key" -> "k1"
                          [] k = "stream" -> stream]) :
        kw \in ParamCalls, name \in DispatchNames, stream \in BOOLEAN}

DispatchIdle ==
    /\ dpc = "off"
    /\ dfkw = EmptyDict
    /\ dreceived = EmptyDict
    /\ dvariantcalls = 0
    /\ dvendorcalls = 0
    /\ dvret = NoOutcome
    /\ dresult = NoOutcome

DispatchInit ==
    /\ dpc = "call"
    /\ dfkw \in DispatchCalls
    /\ dreceived = EmptyDict
    /\ dvariantcalls = 0
    /\ dvendorcalls = 0
    /\ dvret = NoOutcome
    /\ dresult = NoOutcome

\* "provider = await self.get_provider(...)" of line 174 on the factory's
\* cache (lines 40-66); got: whether a provider came back
DispatchGetProvider(ok, got) ==
    LET name  == dfkw["provider_name"]
        key   == ProviderKey(name, dfkw["api_key"], None)
        provs == NameDict(providers, name)
        cls   == RegistryGet(name)
        id    == Len(instances) + 1
    IN  /\ locks' = IF name \notin DOMAIN locks THEN DictPut(locks, name, 0) ELSE locks
        /\ IF ~NeedsConstruction(provs, name, key)
           THEN providers' = provs /\ instances' = instances /\ got
           ELSE IF cls # None /\ ok
           THEN /\ instances' = Append(instances,
                       [name |-> name, key |-> key, cls |-> cls,
                        api_key |-> dfkw["api_key"], organization_id |-> None])
                /\ providers' = DictPut(provs, name, DictPut(provs[name], key, id))
                /\ got
           ELSE providers' = provs /\ instances' = instances /\ ~got

\* get_provider raises (unknown name, constructor failure): the factory call
\* raises
DispatchFails(ok) ==
    /\ dpc = "call"
    /\ DispatchGetProvider(ok, FALSE)
    /\ dresult' = [kind |-> "raise",
                   type |-> IF RegistryGet(dfkw["provider_name"]) = None
                            THEN "ValueError" ELSE "ClientError"]
    /\ dpc' = "done"
    /\ UNCHANGED <<dfkw, dreceived, dvariantcalls, dvendorcalls, dvret>>
    /\ UNCHANGED dispatchOthers

\* stream = True: the variant's async generator function is called, which
\* creates the generator without running its body, and the generator is
\* returned
DispatchStream(ok) ==
    /\ dpc = "call"
    /\ dfkw["stream"]
    /\ DispatchGetProvider(ok, TRUE)
    /\ dreceived' = ForwardedParams(dfkw)
    /\ dresult' = [kind |-> "generator", variant |-> LowerName(dfkw["provider_name"])]
    /\ dpc' = "returned"
    /\ UNCHANGED <<dfkw, dvariantcalls, dvendorcalls, dvret>>
    /\ UNCHANGED dispatchOthers

\* the consumer's first pull runs the generator up to its first yield: the
\* request is built and the vendor stream opened
FirstPull ==
    /\ dpc = "returned"
    /\ dvendorcalls' = dvendorcalls + 1
    /\ dpc' = "pulled"
    /\ UNCHANGED <<dfkw, dreceived, dvariantcalls, dvret, dresult>>
    /\ UNCHANGED <<providers, locks, instances>>
    /\ UNCHANGED dispatchOthers

\* stream = False: the variant's generate_completion is awaited and its
\* value returned
DispatchCompletion(ok) ==
    /\ dpc = "call"
    /\ ~dfkw["stream"]
    /\ DispatchGetProvider(ok, TRUE)
    /\ LET variant == LowerName(dfkw["provider_name"])
           kw == ForwardedParams(dfkw)
       IN  \E outcome \in VendorOutcomes(variant) :
              /\ dreceived' = kw
              /\ dvret' = GenerateCompletion(variant, kw, outcome)
              /\ dresult' = FactoryGenerateCompletion(variant, kw, outcome)
    /\ dvariantcalls' = dvariantcalls + 1
    /\ dvendorcalls' = dvendorcalls + 1
    /\ dpc' = "done"
    /\ UNCHANGED dfkw
    /\ UNCHANGED dispatchOthers

DispatchNext ==
    \/ \E ok \in BOOLEAN : DispatchFails(ok)
    \/ \E ok \in BOOLEAN : DispatchStream(ok)
    \/ FirstPull
    \/ \E ok \in BOOLEAN : DispatchCompletion(ok)

-----------------------------------------------------------------------------
(* Claims about ProviderFactory.generate_completion *)

\* the parameters of the factory call that are meant for the variant
GenerationParams == Without(dfkw, {"provider_name", "api_key", "organization_id", "stream"})

\* C20: the factory is pure routing.  With stream = true it returns the
\* variant's chunk sequence and no vendor network call is issued before the
\* consumer's first pull; with stream = false it performs exactly one
\* generate_completion call of the variant and returns its result
\* unmodified; in both cases model, messages and every generation parameter
\* reach the variant unchanged.
C20_PureRouting ==
    /\ dpc = "returned" =>
          /\ dresult.kind = "generator"
          /\ dvendorcalls = 0
          /\ dvariantcalls = 0
          /\ dreceived = GenerationParams
    /\ (dpc = "done" /\ dresult.kind # "raise" /\ ~dfkw["stream"]) =>
          /\ dvariantcalls = 1
          /\ dresult = dvret
          /\ dreceived = GenerationParams

\* a streaming call with max_tokens and additional_params whose generator
\* was handed over and not yet pulled
C20_Witness ==
    /\ dpc = "returned"
    /\ "additional_params" \in DOMAIN dfkw
    /\ "max_tokens" \in DOMAIN dfkw
    /\ dreceived = GenerationParams

-----------------------------------------------------------------------------
(* Claims about the content and usage fields of a result *)

\* a result dict that is not an ErrorResult
Completed == vpc = "done" /\ vresult.kind = "return" /\ ~IsErrorResult(vresult.value)

\* C21: every completion result produced by any variant has a content field
\* that is a string and never null, including when the vendor returns a
\* message without content.
C21_ContentNeverNull == Completed => vresult.value.content # None

\* C25 as stated: every successful OpenAI or Anthropic result in which the
\* three usage counts are present has total_tokens = prompt_tokens +
\* completion_tokens, for every vendor response.  (Both variants read the
\* counts as attributes of response.usage, so a successful result always
\* has the three of them.)
C25_TotalIsSum ==
    (Completed /\ vvariant \in {"openai", "anthropic"}) =>
        LET u == vresult.value.usage
        IN  u.total_tokens = u.prompt_tokens + u.completion_tokens

\* C25 amended: the Anthropic result's total_tokens is the sum of its
\* prompt_tokens and completion_tokens for every vendor response; the OpenAI
\* result carries the three counts the vendor reported, unchanged.
C25_UsageTotals ==
    Completed =>
        LET u == vresult.value.usage
        IN  /\ vvariant = "anthropic" =>
                  /\ u.prompt_tokens = voutcome.response.input_tokens
                  /\ u.completion_tokens = voutcome.response.output_tokens
                  /\ u.total_tokens = u.prompt_tokens + u.completion_tokens
            /\ vvariant = "openai" => u = voutcome.response.usage

C25_Witness ==
    /\ Completed
    /\ vvariant = "anthropic"
    /\ vresult.value.usage = Usage(3, 2, 5)

-----------------------------------------------------------------------------
(* Claims about the pacing and the release of the vendor stream *)

\* C22: streaming is consumer-paced in every variant: the number of vendor
\* items read but not yet turned into a delivered chunk is at most one at
\* every point of the call.
C22_ReadAheadAtMostOne == sread - sproc <= 1

\* C23: for every variant, when the consumer stops iterating before the end
\* and the chunk sequence is closed, the vendor stream opened by the call is
\* closed: no state has the sequence closed and its vendor stream open.
C23_ClosedReleasesVendor == spc = "closed" => svendor # "open"

-----------------------------------------------------------------------------
(* Cache keys and credentials: get_provider calls made one after another,   *)
(* with credentials that contain the key's separator, and the vendor calls  *)
(* made through the instances they return                                   *)

CacheNames == {"openai", "google"}

\* (api_key, organization_id) pairs: with and without ':', None and ''
Credentials ==
    {[api_key |-> "a", organization_id |-> None],
     [api_key |-> "a", organization_id |-> ""],
     [api_key |-> "a", organization_id |-> "b:c"],
     [api_key |-> "a:b", organization_id |-> "c"]}

CacheArgs ==
    {[provider_name |-> n, api_key |-> c.api_key, organization_id |-> c.organization_id] :
        n \in CacheNames, c \in Credentials}

\* BaseProvider.__init__: the instance keeps the credentials it was built with
NewInstance(a) ==
    [name |-> a.provider_name, key |-> KeyOf(a), cls |-> RegistryGet(a.provider_name),
     api_key |-> a.api_key, organization_id |-> a.organization_id]

\* _setup_client: the OpenAI variant builds a client of its own from
\* self.api_key (openai.py:17-20); the Google variant configures the
\* google.generativeai module, which all its instances share
\* (google.py:18-19)
SetupClient(inst, genai) ==
    IF inst.cls = "GoogleProvider" THEN inst.api_key ELSE genai

\* the credential a vendor call made through inst is issued with: the one of
\* the instance's own client, or (Google: self._client is the module) the
\* one the module is configured with at that time
CredentialSent(inst, genai) ==
    IF inst.cls = "GoogleProvider" THEN genai ELSE inst.api_key

CacheIdle ==
    /\ qproviders = EmptyDict
    /\ qgenai = None
    /\ qret = NoOutcome
    /\ qcall = NoOutcome

CacheInit == CacheIdle

\* factory.py:40-66, one call running alone
CacheGetProvider(a) ==
    LET name  == a.provider_name
        key   == KeyOf(a)
        provs == NameDict(qproviders, name)
    IN  IF NeedsConstruction(provs, name, key)
        THEN /\ qproviders' = DictPut(provs, name, DictPut(provs[name], key, NewInstance(a)))
             /\ qgenai' = SetupClient(NewInstance(a), qgenai)
             /\ qret' = [kind |-> "return", args |-> a, instance |-> NewInstance(a)]
             /\ UNCHANGED qcall
             /\ UNCHANGED cacheOthers
        ELSE /\ qproviders' = provs
             /\ qret' = [kind |-> "return", args |-> a, instance |-> provs[name][key]]
             /\ UNCHANGED <<qgenai, qcall>>
             /\ UNCHANGED cacheOthers

\* a vendor call made through a cached instance
CacheVendorCall(name, key) ==
    /\ name \in DOMAIN qproviders
    /\ key \in DOMAIN qproviders[name]
    /\ qcall' = [kind |-> "call", instance |-> qproviders[name][key],
                 credential |-> CredentialSent(qproviders[name][key], qgenai)]
    /\ UNCHANGED <<qproviders, qgenai, qret>>
    /\ UNCHANGED cacheOthers

CacheNext ==
    \/ \E a \in CacheArgs : CacheGetProvider(a)
    \/ \E a \in CacheArgs : CacheVendorCall(a.provider_name, KeyOf(a))

\* C24: a call made through the instance cached for (provider, credential
\* K1) is issued to the vendor with credential K1, whatever other instances
\* were constructed or used before or in between.
C24_CallCarriesOwnCredential ==
    qcall.kind = "call" => qcall.credential = qcall.instance.api_key

\* C26: two get_provider requests with the same provider name but different
\* (api_key, organization_id) pairs never return the same instance: every
\* request is answered with an instance built from its own pair (an
\* instance built from another pair is one another request was answered
\* with), also when a credential contains ':' or the organization is None
\* versus the empty string.
C26_KeyInjective ==
    qret.kind = "return" =>
        /\ qret.instance.api_key = qret.args.api_key
        /\ qret.instance.organization_id = qret.args.organization_id

-----------------------------------------------------------------------------
(* Claims about the identity of cached instances and the per-name locks *)

\* C27: provider-name resolution and caching agree on identity: requests
\* whose provider names differ only in letter case and whose credential and
\* organization are equal get the same instance, so at most one instance
\* exists per registry provider, credential and organization.
C27_OneInstancePerRegistryProvider ==
    \A i, j \in 1..Len(instances) :
        (/\ instances[i].cls = instances[j].cls
         /\ instances[i].api_key = instances[j].api_key
         /\ instances[i].organization_id = instances[j].organization_id) => i = j

\* the lock of a name is held only by a task inside the "async with" block
\* of a call for that name
HeldOnlyInside ==
    \A n \in DOMAIN locks :
        locks[n] # 0 =>
            /\ locks[n] \in Tasks
            /\ tpc[locks[n]] = "locked"
            /\ targs[locks[n]].provider_name = n

\* C28: the per-name lock is released on every exit of get_provider,
\* including when construction raises: no lock is held except by a call
\* inside the block (so none is left held once the calls are over), and a
\* get_provider call waiting for the lock of its name always gets through.
C28_LockAlwaysReleased ==
    /\ [](HeldOnlyInside)
    /\ \A t \in Tasks : (tpc[t] = "acquire") ~> (tpc[t] = "idle")

\* C28 witness: a construction has raised, a call for the same name has
\* returned, every call of the run is over and no lock is held.
C28_Witness ==
    /\ calls = MaxCalls
    /\ \A t \in Tasks : tpc[t] = "idle"
    /\ \E r \in raised, q \in returned :
          /\ r.error = "ClientError"
          /\ r.args.provider_name = q.args.provider_name
    /\ \A n \in DOMAIN locks : locks[n] = 0

-----------------------------------------------------------------------------
(* Model listing against provider inference *)

\* the ids of the hard-coded catalog of AnthropicProvider.get_models
AnthropicCatalog ==
    {<<"c", "l", "a", "u", "d", "e", "-", "3", "-", "o", "p", "u", "s", "-", "2", "0", "2", "4", "0", "2", "2", "9">>,
     <<"c", "l", "a", "u", "d", "e", "-", "3", "-", "s", "o", "n", "n", "e", "t", "-", "2", "0", "2", "4", "0", "2", "2", "9">>,
     <<"c", "l", "a", "u", "d", "e", "-", "3", "-", "h", "a", "i", "k", "u", "-", "2", "0", "2", "4", "0", "3", "0", "7">>,
     <<"c", "l", "a", "u", "d", "e", "-", "2", ".", "1">>,
     <<"c", "l", "a", "u", "d", "e", "-", "2", ".", "0">>,
     <<"c", "l", "a", "u", "d", "e", "-", "i", "n", "s", "t", "a", "n", "t", "-", "1", ".", "2">>}

\* the ids of the hard-coded catalog of CohereProvider.get_models
CohereCatalog ==
    {<<"c", "o", "m", "m", "a", "n", "d">>,
     <<"c", "o", "m", "m", "a", "n", "d", "-", "l", "i", "g", "h", "t">>,
     <<"c", "o", "m", "m", "a", "n", "d", "-", "r">>,
     <<"c", "o", "m", "m", "a", "n", "d", "-", "r", "-", "p", "l", "u", "s">>}

\* C29: for every model id a variant's get_models can return (every id
\* passing the OpenAI listing filter, every id of the Anthropic and Cohere
\* catalogs), get_provider_for_model(id) returns the provider name carried
\* in that model's entry and does not raise.
C29_ListingAgreesWithInference ==
    gpc = "done" =>
        /\ KeepsOpenAIModel(gid) => gresult = Returns("openai")
        /\ gid \in AnthropicCatalog => gresult = Returns("anthropic")
        /\ gid \in CohereCatalog => gresult = Returns("cohere")

-----------------------------------------------------------------------------
(* Claims about the translation of the message sequence *)

\* the user and assistant messages of the call, in order
Turns == SelectSeq(vkw["messages"], IsTurn)

\* the role a variant's vendor gives a user or assistant message
VendorRole(variant, role) ==
    CASE variant = "anthropic" -> role
      [] variant = "google" -> IF role = "assistant" THEN "model" ELSE "user"
      [] variant = "cohere" -> IF role = "assistant" THEN "CHATBOT" ELSE "USER"

\* C30: for every message sequence, the Anthropic, Google and Cohere
\* translations keep every user and assistant message exactly once, in the
\* original order and with the role mapped; for Cohere the last non-system
\* message becomes the request's message, all earlier ones form
\* chat_history in order, and that message is a user-role message.
C30_TranslationKeepsTurns ==
    vpc \in {"sent", "done"} =>
        CASE vvariant = "anthropic" ->
                vrequest["messages"] =
                    [i \in 1..Len(Turns) |->
                        [role |-> VendorRole("anthropic", Turns[i].role),
                         content |-> Turns[i].content]]
          [] vvariant = "google" ->
                /\ Len(vrequest["contents"]) = Len(Turns)
                /\ \A i \in 1..Len(Turns) :
                      /\ vrequest["contents"][i].role = VendorRole("google", Turns[i].role)
                      /\ Len(vrequest["contents"][i].parts) = 1
                      /\ \/ vrequest["contents"][i].parts[1].text = Turns[i].content
                         \/ /\ i = 1
                            /\ vrequest["contents"][i].parts[1].text =
                                   SystemPrefixed(SystemMessage(vkw["messages"]),
                                                  Turns[i].content)
          [] vvariant = "cohere" ->
                /\ vrequest["chat_history"] =
                       [i \in 1..(Len(Turns) - 1) |->
                           [role |-> VendorRole("cohere", Turns[i].role),
                            message |-> Turns[i].content]]
                /\ Turns # << >> =>
                       /\ vrequest["message"] = Turns[Len(Turns)].content
                       /\ Turns[Len(Turns)].role = "user"
          [] OTHER -> TRUE

-----------------------------------------------------------------------------
(* Specifications *)

FactoryIdle == FactoryInit

Init == FactoryInit /\ VariantIdle /\ RetryIdle /\ BackoffIdle /\ StreamIdle /\ ModelsIdle /\ RouteIdle /\ ParamsIdle
    /\ ClassifyIdle /\ DispatchIdle /\ CacheIdle

Next == FactoryNext

Spec == Init /\ [][Next]_vars

\* get_provider under the scheduling of asyncio: the block of the "async
\* with" holds no await, so a task that has the lock runs it to its end;
\* asyncio.Lock wakes its waiters in arrival order, so a task that waits
\* for a lock that is released again and again gets it
SpecLive ==
    /\ Init
    /\ [][Next]_vars
    /\ \A t \in Tasks :
          /\ SF_vars(Acquire(t))
          /\ WF_vars(\E ok \in BOOLEAN : LockedBody(t, ok))

InitVariant == VariantInit /\ FactoryIdle /\ RetryIdle /\ BackoffIdle /\ StreamIdle /\ ModelsIdle /\ RouteIdle /\ ParamsIdle
    /\ ClassifyIdle /\ DispatchIdle /\ CacheIdle

NextVariant == VariantNext

SpecVariant == InitVariant /\ [][NextVariant]_vars

InitRetry == RetryInit /\ FactoryIdle /\ VariantIdle /\ BackoffIdle /\ StreamIdle /\ ModelsIdle /\ RouteIdle /\ ParamsIdle
    /\ ClassifyIdle /\ DispatchIdle /\ CacheIdle

NextRetry == RetryNext

SpecRetry == InitRetry /\ [][NextRetry]_vars

InitBackoff == BackoffInit /\ FactoryIdle /\ VariantIdle /\ RetryIdle /\ StreamIdle /\ ModelsIdle /\ RouteIdle /\ ParamsIdle
    /\ ClassifyIdle /\ DispatchIdle /\ CacheIdle

NextBackoff == BackoffNext

SpecBackoff == InitBackoff /\ [][NextBackoff]_vars

InitStream == StreamInit /\ FactoryIdle /\ VariantIdle /\ RetryIdle /\ BackoffIdle /\ ModelsIdle /\ RouteIdle /\ ParamsIdle
    /\ ClassifyIdle /\ DispatchIdle /\ CacheIdle

NextStream == StreamNext

SpecStream == InitStream /\ [][NextStream]_vars

InitModels ==
    /\ ModelsInit
    /\ FactoryIdle /\ VariantIdle /\ RetryIdle /\ BackoffIdle /\ StreamIdle
    /\ RouteIdle /\ ParamsIdle /\ ClassifyIdle /\ DispatchIdle /\ CacheIdle

NextModels == ModelsNext

SpecModels == InitModels /\ [][NextModels]_vars

InitRoute ==
    /\ RouteInit
    /\ FactoryIdle /\ VariantIdle /\ RetryIdle /\ BackoffIdle /\ StreamIdle
    /\ ModelsIdle /\ ParamsIdle /\ ClassifyIdle /\ DispatchIdle /\ CacheIdle

NextRoute == RouteNext

SpecRoute == InitRoute /\ [][NextRoute]_vars

InitParams ==
    /\ ParamsInit
    /\ FactoryIdle /\ VariantIdle /\ RetryIdle /\ BackoffIdle /\ StreamIdle
    /\ ModelsIdle /\ RouteIdle /\ ClassifyIdle /\ DispatchIdle /\ CacheIdle

NextParams == ParamsNext

SpecParams == InitParams /\ [][NextParams]_vars

InitClassify ==
    /\ ClassifyInit
    /\ FactoryIdle /\ VariantIdle /\ RetryIdle /\ BackoffIdle /\ StreamIdle
    /\ ModelsIdle /\ RouteIdle /\ ParamsIdle /\ DispatchIdle /\ CacheIdle

NextClassify == ClassifyNext

SpecClassify == InitClassify /\ [][NextClassify]_vars

InitDispatch ==
    /\ DispatchInit
    /\ FactoryIdle /\ VariantIdle /\ RetryIdle /\ BackoffIdle /\ StreamIdle
    /\ ModelsIdle /\ RouteIdle /\ ParamsIdle /\ ClassifyIdle /\ CacheIdle

NextDispatch == DispatchNext

SpecDispatch == InitDispatch /\ [][NextDispatch]_vars

InitCache ==
    /\ CacheInit
    /\ FactoryIdle /\ VariantIdle /\ RetryIdle /\ BackoffIdle /\ StreamIdle /\ ModelsIdle /\ RouteIdle /\ ParamsIdle /\ ClassifyIdle /\ DispatchIdle

NextCache == CacheNext

SpecCache == InitCache /\ [][NextCache]_vars

=============================================================================
